---- MODULE Spec2Model ----
(***************************************************************************)
(* A model of three command modules of btcli:                              *)
(*   src/bittensor_cli/src/commands/stake/remove.py  (unstake, unstake_all)*)
(*   src/bittensor_cli/src/commands/stake/list.py    (stake_list)          *)
(*   src/bittensor_cli/src/commands/subnets.py       (register, metagraph) *)
(*                                                                         *)
(* Amounts are integers in the base unit of Balance (rao).  Values that    *)
(* the pool model derives by division (price, swap output, slippage) are   *)
(* kept as exact fractions <<numerator, denominator>> with a positive      *)
(* denominator, and compared by cross-multiplication.                      *)
(***************************************************************************)
EXTENDS Integers, Sequences, FiniteSets, TLC

VARIABLES
    pc,            \* position of the running command
    cmd,           \* which command this run executes
    subnet_info,   \* slippage calculator: the pool handed to _calculate_slippage
    amount,        \* slippage calculator: first alpha amount
    amount2,       \* slippage calculator: second alpha amount (amount <= amount2)
    calc,          \* slippage calculator: result of _calculate_slippage for amount
    calc2,         \* slippage calculator: result of _calculate_slippage for amount2
    substakes,     \* stake_list: the selected hotkey's StakeInfo list, in chain order
    dynamic_info,  \* stake_list: netuid -> pool, from get_stake_data
    live,          \* stake_list: the live flag
    previous_data, \* stake_list: live mode, the values of the previous refresh
    table,         \* stake_list: what create_table / create_live_table produced
    dynamic_info_, \* stake_list: live mode, netuid -> pool, from the latest poll
    refresh,       \* stake_list: live mode, the number of polls made so far
    completed,     \* stake_list: live mode, the seconds the progress bar shows
    args,          \* extrinsic commands: the arguments of the command
    stake_in_netuids, \* unstake: hotkey -> netuid -> stake, the snapshot at chain head
    hk_i,          \* unstake: index into hotkeys_to_unstake_from (outer loop)
    nu_i,          \* unstake: index into netuids_to_process (inner loop)
    unstake_operations, \* unstake: the plan
    op_i,          \* unstake: index of the next planned operation to submit
    unlocked,      \* the coldkey: "locked", "unlocked", or "KeyFileError"
    composed,      \* the calls composed by compose_call, in order
    submitted,     \* the extrinsics handed to the chain, in order
    answers,       \* what the chain answered to each submission, in order
    requeried,     \* the planned operations whose balance and stake were re-queried
    printed,       \* what the command has printed, in order
    result,        \* how the command ended: its return value or the exception
    metadata,      \* metagraph: the cache's metadata table, table name -> key -> value
    last_run,      \* metagraph: the latest run of metagraph_cmd
    cache_run      \* metagraph: the latest fetch run that wrote the cache

calcVars == <<subnet_info, amount, amount2, calc, calc2>>
listVars == <<substakes, dynamic_info, live, previous_data, table,
              dynamic_info_, refresh, completed>>
planVars == <<stake_in_netuids, hk_i, nu_i, unstake_operations>>
chainVars == <<op_i, unlocked, composed, submitted, answers, requeried>>
outVars == <<printed, result>>
cmdVars == <<args, planVars, chainVars, outVars>>
metaVars == <<metadata, last_run, cache_run>>
vars == <<pc, cmd, calcVars, listVars, cmdVars, metaVars>>

(***************************************************************************)
(* Bounds of the model.                                                    *)
(***************************************************************************)
MaxReserve == 3
MaxAmount == 3
MaxPool == 1

\* reserves and amounts of the worked examples of the specification
ExampleReserves == {500, 1000}
ExampleAmounts == {5, 10}

ReserveValues == (0..MaxReserve) \cup ExampleReserves
AmountValues == (0..MaxAmount) \cup ExampleAmounts

None == "None"

(***************************************************************************)
(* Exact fractions.                                                        *)
(***************************************************************************)
RECURSIVE Gcd(_, _)
Gcd(a, b) == IF b = 0 THEN a ELSE Gcd(b, a % b)
Abs(n) == IF n < 0 THEN 0 - n ELSE n
\* the fraction n/d in lowest terms, d > 0
Frac(n, d) ==
    LET g == Gcd(Abs(n), d)
    IN  IF n = 0 THEN <<0, 1>> ELSE <<n \div g, d \div g>>
FracOfInt(n) == <<n, 1>>
FracLeq(x, y) == x[1] * y[2] <= y[1] * x[2]
FracLess(x, y) == x[1] * y[2] < y[1] * x[2]
FracEq(x, y) == x[1] * y[2] = y[1] * x[2]
FracSub(x, y) == Frac(x[1] * y[2] - y[1] * x[2], x[2] * y[2])
FracMulInt(x, n) == Frac(x[1] * n, x[2])
\* x / y for y > 0
FracDiv(x, y) == Frac(x[1] * y[2], x[2] * y[1])
FracAdd(x, y) == Frac(x[1] * y[2] + y[1] * x[2], x[2] * y[2])
FracZero == <<0, 1>>
\* x * y, cancelling across before multiplying
FracMul(x, y) ==
    LET g1 == Gcd(Abs(x[1]), y[2])
        g2 == Gcd(Abs(y[1]), x[2])
    IN  IF x[1] = 0 \/ y[1] = 0
        THEN FracZero
        ELSE Frac((x[1] \div g1) * (y[1] \div g2), (x[2] \div g2) * (y[2] \div g1))

(***************************************************************************)
(* The subnet pool (DynamicInfo).  Its methods live outside the three      *)
(* command modules; they are modelled from the specification: the price    *)
(* is the reserve ratio, the no-slippage value is linear at that price,    *)
(* the swap is a constant-product swap, and a non-dynamic subnet converts  *)
(* 1:1 with zero slippage.                                                 *)
(***************************************************************************)
Pool(dyn, t, a) == [is_dynamic |-> dyn, tao_in |-> t, alpha_in |-> a]

price(pool) ==
    IF pool.is_dynamic
    THEN IF pool.alpha_in = 0 THEN FracZero ELSE Frac(pool.tao_in, pool.alpha_in)
    ELSE FracOfInt(1)

alpha_to_tao(pool, alpha) == FracMulInt(price(pool), alpha)

\* mutant: the 1:1 rule of a non-dynamic subnet is dropped, every subnet swaps
alpha_to_tao_with_slippage_AlwaysSwap(pool, alpha) ==
    LET new_alpha_in == pool.alpha_in + alpha
        tao_returned == IF new_alpha_in = 0
                        THEN FracZero
                        ELSE Frac(pool.tao_in * alpha, new_alpha_in)
    IN  [tao_returned |-> tao_returned, slippage_pct_float |-> FracZero]

\* mutant: the slippage is taken with the wrong sign (returned minus ideal)
alpha_to_tao_with_slippage_SignSlip(pool, alpha) ==
    LET new_alpha_in == pool.alpha_in + alpha
        tao_returned == IF new_alpha_in = 0
                        THEN FracZero
                        ELSE Frac(pool.tao_in * alpha, new_alpha_in)
        tao_ideal == alpha_to_tao(pool, alpha)
        slippage == FracSub(tao_returned, tao_ideal)
    IN  [tao_returned |-> tao_returned,
         slippage_pct_float |->
             IF pool.is_dynamic /\ tao_ideal[1] > 0
             THEN FracMulInt(FracDiv(slippage, tao_ideal), 100)
             ELSE FracZero]

\* mutant: the swap pays out at the current price, whatever the amount
alpha_to_tao_with_slippage_Linear(pool, alpha) ==
    [tao_returned |-> alpha_to_tao(pool, alpha), slippage_pct_float |-> FracZero]

\* mutant: the percentage is the share received, not the share lost
alpha_to_tao_with_slippage_ShareReceived(pool, alpha) ==
    LET new_alpha_in == pool.alpha_in + alpha
        tao_returned == IF ~pool.is_dynamic
                        THEN FracOfInt(alpha)
                        ELSE IF new_alpha_in = 0
                        THEN FracZero
                        ELSE Frac(pool.tao_in * alpha, new_alpha_in)
        tao_ideal == alpha_to_tao(pool, alpha)
    IN  [tao_returned |-> tao_returned,
         slippage_pct_float |->
             IF pool.is_dynamic /\ tao_ideal[1] > 0
             THEN FracMulInt(FracDiv(tao_returned, tao_ideal), 100)
             ELSE FracZero]

alpha_to_tao_with_slippage(pool, alpha) ==
    IF pool.is_dynamic
    THEN LET new_alpha_in == pool.alpha_in + alpha
             k == pool.tao_in * pool.alpha_in
             \* tao_in - k / new_alpha_in
             tao_returned == IF new_alpha_in = 0
                             THEN FracZero
                             ELSE Frac(pool.tao_in * new_alpha_in - k, new_alpha_in)
             tao_ideal == alpha_to_tao(pool, alpha)
             slippage == FracSub(tao_ideal, tao_returned)
         IN  [tao_returned |-> tao_returned,
              slippage_pct_float |->
                  IF tao_ideal[1] > 0
                  THEN FracMulInt(FracDiv(slippage, tao_ideal), 100)
                  ELSE FracZero]
    ELSE [tao_returned |-> FracOfInt(alpha), slippage_pct_float |-> FracZero]

(***************************************************************************)
(* remove.py: _calculate_slippage.                                         *)
(***************************************************************************)
_calculate_slippage(pool, alpha) ==
    LET r == alpha_to_tao_with_slippage(pool, alpha)
    IN  IF pool.is_dynamic
        THEN [received_amount |-> r.tao_returned,
              slippage_pct |-> [fmt |-> "{:.4f} %", v |-> r.slippage_pct_float],
              slippage_pct_float |-> r.slippage_pct_float]
        ELSE [received_amount |-> r.tao_returned,
              slippage_pct |-> [fmt |-> "[red]N/A[/red]", v |-> FracZero],
              slippage_pct_float |-> FracZero]

(***************************************************************************)
(* Specification of the slippage calculator: the inputs are drawn in the   *)
(* initial state, one step applies _calculate_slippage to both amounts.    *)
(***************************************************************************)
NoCalc == [received_amount |-> FracZero,
           slippage_pct |-> [fmt |-> "", v |-> FracZero],
           slippage_pct_float |-> FracZero]

Running == "running"

\* the variables of the extrinsic commands while another part of the model runs
\* how a command ends
ReturnFalse == "return False"
ReturnTrue == "return True"
ReturnNone == "return None"
RaiseExit == "raise typer.Exit"
RaiseException == "raise Exception"
RaiseKeyError == "raise KeyError"
RaiseTypeError == "raise TypeError"
RaiseJSONDecodeError == "raise json.JSONDecodeError"

\* metagraph_cmd has not run: no table with a header, no title, no rows
NoTable == [rendered |-> FALSE, headers |-> <<>>, title |-> <<>>,
            footers |-> <<>>, rows |-> <<>>]

NoRun == [ran |-> FALSE, reuse_last |-> FALSE, netuid |-> 0, html_output |-> FALSE,
          no_cache |-> FALSE, display_cols |-> <<>>, cache |-> "", result |-> "",
          printed |-> <<>>, table |-> NoTable]

MetaIdle ==
    /\ metadata = <<>>
    /\ last_run = NoRun
    /\ cache_run = NoRun

CmdIdle ==
    /\ args = None
    /\ stake_in_netuids = <<>>
    /\ hk_i = 0
    /\ nu_i = 0
    /\ unstake_operations = <<>>
    /\ op_i = 0
    /\ unlocked = "locked"
    /\ composed = <<>>
    /\ submitted = <<>>
    /\ answers = <<>>
    /\ requeried = {}
    /\ printed = <<>>
    /\ result = Running

CalcIdle ==
    /\ subnet_info = Pool(FALSE, 0, 0)
    /\ amount = 0
    /\ amount2 = 0
    /\ calc = NoCalc
    /\ calc2 = NoCalc

ListIdle ==
    /\ substakes = <<>>
    /\ dynamic_info = <<>>
    /\ live = FALSE
    /\ previous_data = None
    /\ table = None
    /\ dynamic_info_ = <<>>
    /\ refresh = 0
    /\ completed = 0

SlippageInit ==
    /\ pc = "start"
    /\ cmd = "_calculate_slippage"
    /\ \E dyn \in BOOLEAN, t \in ReserveValues, a \in ReserveValues :
           subnet_info = Pool(dyn, t, a)
    /\ amount \in AmountValues
    /\ amount2 \in AmountValues
    /\ amount <= amount2
    /\ calc = NoCalc
    /\ calc2 = NoCalc
    /\ ListIdle
    /\ CmdIdle
    /\ MetaIdle

CalculateSlippage ==
    /\ pc = "start"
    /\ cmd = "_calculate_slippage"
    /\ calc' = _calculate_slippage(subnet_info, amount)
    /\ calc2' = _calculate_slippage(subnet_info, amount2)
    /\ pc' = "done"
    /\ UNCHANGED <<cmd, subnet_info, amount, amount2, listVars, cmdVars, metaVars>>

SlippageNext == CalculateSlippage

SlippageSpec == SlippageInit /\ [][SlippageNext]_vars

Calculated == cmd = "_calculate_slippage" /\ pc = "done"
PositiveReserves == subnet_info.tao_in > 0 /\ subnet_info.alpha_in > 0

\* C2: on a non-dynamic subnet the slippage of an unstake is exactly zero and
\* the received amount equals the input amount, for every amount.
C2_FixedRateNoSlippage ==
    (Calculated /\ ~subnet_info.is_dynamic) =>
        /\ calc.slippage_pct_float = FracZero
        /\ FracEq(calc.received_amount, FracOfInt(amount))
        /\ calc2.slippage_pct_float = FracZero
        /\ FracEq(calc2.received_amount, FracOfInt(amount2))

\* the root example: 5 TAO staked on a fixed-rate subnet, unstaked
C2_Witness ==
    /\ Calculated /\ ~subnet_info.is_dynamic
    /\ amount = 5 /\ subnet_info.tao_in > 0
    /\ FracEq(calc.received_amount, FracOfInt(5))

\* C3: on a dynamic subnet with positive reserves the received amount is at
\* most the no-slippage value (amount times price) and the slippage percent
\* is not negative.
C3_ReceivedAtMostIdeal ==
    (Calculated /\ subnet_info.is_dynamic /\ PositiveReserves) =>
        /\ FracLeq(calc.received_amount, alpha_to_tao(subnet_info, amount))
        /\ FracLeq(FracZero, calc.slippage_pct_float)
        /\ FracLeq(calc2.received_amount, alpha_to_tao(subnet_info, amount2))
        /\ FracLeq(FracZero, calc2.slippage_pct_float)

C3_Witness ==
    /\ Calculated /\ subnet_info.is_dynamic /\ PositiveReserves
    /\ amount > 0
    /\ FracLess(calc.received_amount, alpha_to_tao(subnet_info, amount))
    /\ FracLess(FracZero, calc.slippage_pct_float)

\* C4: with tao_in = 1000 and alpha_in = 500, unstaking 10 alpha has a
\* no-slippage value of exactly 20 TAO and a swap value strictly below 20.
C4_Example ==
    (Calculated /\ subnet_info = Pool(TRUE, 1000, 500) /\ amount = 10) =>
        /\ FracEq(price(subnet_info), FracOfInt(2))
        /\ FracEq(alpha_to_tao(subnet_info, amount), FracOfInt(20))
        /\ FracLess(calc.received_amount, FracOfInt(20))

C4_Witness ==
    /\ Calculated /\ subnet_info = Pool(TRUE, 1000, 500) /\ amount = 10
    /\ FracLess(FracOfInt(19), calc.received_amount)

\* C5: on a dynamic subnet with positive reserves and 0 < a1 <= a2, the
\* effective rate (received per alpha) of a2 is not better than that of a1
\* and the slippage percent of a2 is at least that of a1.
C5_Monotonic ==
    (Calculated /\ subnet_info.is_dynamic /\ PositiveReserves /\ amount > 0) =>
        /\ FracLeq(FracMulInt(calc2.received_amount, amount),
                   FracMulInt(calc.received_amount, amount2))
        /\ FracLeq(calc.slippage_pct_float, calc2.slippage_pct_float)

C5_Witness ==
    /\ Calculated /\ subnet_info.is_dynamic /\ PositiveReserves
    /\ 0 < amount /\ amount < amount2
    /\ FracLess(calc.slippage_pct_float, calc2.slippage_pct_float)

(***************************************************************************)
(* list.py: stake_list.  One hotkey's table.  Amounts of this part are in  *)
(* units of 0.00001 TAO, so that the row threshold 0.00009 TAO of          *)
(* create_table is the integer DustThreshold.                              *)
(***************************************************************************)
DustThreshold == 9
NetuidSet == {0, 1, 2}
StakeValues == {0, DustThreshold, DustThreshold + 1}
AlphaInValues == {1, 2}

StakeInfo(n, s) == [netuid |-> n, stake |-> s]
ListPool(dyn, t, a, out) ==
    [is_dynamic |-> dyn, tao_in |-> t, alpha_in |-> a, alpha_out |-> out]

\* the pools a chain can report for a netuid: root is the fixed-rate subnet
PoolsOf(n) ==
    IF n = 0
    THEN {ListPool(FALSE, t, t, t) : t \in 0..MaxPool}
    ELSE {ListPool(TRUE, t, a, out) :
              t \in 0..MaxPool, a \in AlphaInValues, out \in 0..MaxPool}

RECURSIVE FracSum(_)
FracSum(seq) ==
    IF seq = <<>> THEN FracZero ELSE FracAdd(Head(seq), FracSum(Tail(seq)))

\* x goes in front of the first element whose key is not greater than its own
RECURSIVE InsertByValue(_, _, _)
InsertByValue(x, sorted, info) ==
    IF sorted = <<>>
    THEN <<x>>
    ELSE IF FracLeq(alpha_to_tao(info[Head(sorted).netuid], Head(sorted).stake),
                    alpha_to_tao(info[x.netuid], x.stake))
         THEN <<x>> \o sorted
         ELSE <<Head(sorted)>> \o InsertByValue(x, Tail(sorted), info)

\* sorted(..., key = alpha_to_tao value, reverse = True): stable, descending
RECURSIVE SortByValue(_, _)
SortByValue(ss, info) ==
    IF ss = <<>>
    THEN <<>>
    ELSE InsertByValue(Head(ss), SortByValue(Tail(ss), info), info)

IsRoot(x) == x.netuid = 0
IsNotRoot(x) == x.netuid # 0

\* mutant: the other stakes stay in the order the chain gave them
sorted_substakes_Unsorted(ss, info) ==
    SelectSeq(ss, IsRoot) \o SelectSeq(ss, IsNotRoot)

\* lines 145-154 and 300-308: the root stakes, then the others by value
sorted_substakes(ss, info) ==
    SelectSeq(ss, IsRoot) \o SortByValue(SelectSeq(ss, IsNotRoot), info)

issuance(pool) == IF pool.is_dynamic THEN pool.alpha_out ELSE pool.tao_in

\* tao_ownership as one loop iteration leaves it: computed says whether the
\* iteration assigned it at all, added is what went into total_tao_ownership
NoOwnership == [computed |-> FALSE, divided |-> FALSE, fault |-> FALSE,
                tao_ownership |-> None, added |-> FracZero]
ZeroOwnership == [computed |-> TRUE, divided |-> FALSE, fault |-> FALSE,
                  tao_ownership |-> FracZero, added |-> FracZero]
\* (alpha_value.tao / issuance.tao) * tao_locked.tao; a zero divisor faults
DividedOwnership(alpha_value, pool) ==
    IF issuance(pool) = 0
    THEN [computed |-> FALSE, divided |-> TRUE, fault |-> TRUE,
          tao_ownership |-> None, added |-> FracZero]
    ELSE [computed |-> TRUE, divided |-> TRUE, fault |-> FALSE,
          tao_ownership |-> Frac(alpha_value * pool.tao_in, issuance(pool)),
          added |-> Frac(alpha_value * pool.tao_in, issuance(pool))]

\* mutant: the issuance check of create_table is dropped
static_tao_ownership_Unchecked(alpha_value, pool) ==
    IF alpha_value > DustThreshold
    THEN DividedOwnership(alpha_value, pool)
    ELSE NoOwnership

\* create_table, lines 204-217
static_tao_ownership(alpha_value, pool) ==
    IF alpha_value > DustThreshold
    THEN IF issuance(pool) # 0
         THEN DividedOwnership(alpha_value, pool)
         ELSE ZeroOwnership
    ELSE NoOwnership

\* create_live_table, lines 327-336
live_tao_ownership(alpha_value, pool) ==
    IF alpha_value > DustThreshold /\ issuance(pool) # 0
    THEN DividedOwnership(alpha_value, pool)
    ELSE ZeroOwnership

\* what one iteration of create_table's loop computes for a substake
StaticCell(substake, info) ==
    LET netuid == substake.netuid
        pool == info[netuid]
        alpha_value == substake.stake
        swap == alpha_to_tao_with_slippage(pool, substake.stake)
    IN  [netuid |-> netuid,
         stake |-> alpha_value,
         tao_value |-> alpha_to_tao(pool, alpha_value),
         swapped_tao_value |-> swap.tao_returned,
         slippage_percentage |-> IF pool.is_dynamic
                                 THEN swap.slippage_pct_float
                                 ELSE FracZero,
         swap_value |-> IF netuid = 0 THEN "N/A" ELSE "swapped_tao_value",
         price |-> price(pool),
         issuance |-> issuance(pool),
         own |-> static_tao_ownership(alpha_value, pool),
         in_rows |-> alpha_value > DustThreshold]

\* what one iteration of create_live_table's loop computes for a substake
LiveCell(substake, info) ==
    LET netuid == substake.netuid
        pool == info[netuid]
        alpha_value == substake.stake
        swap == alpha_to_tao_with_slippage(pool, substake.stake)
    IN  [netuid |-> netuid,
         stake |-> alpha_value,
         tao_value |-> alpha_to_tao(pool, alpha_value),
         swapped_tao_value |-> swap.tao_returned,
         slippage_percentage |-> swap.slippage_pct_float,
         swap_value |-> IF netuid = 0 THEN "N/A" ELSE "swapped_tao_value",
         price |-> price(pool),
         issuance |-> issuance(pool),
         own |-> live_tao_ownership(alpha_value, pool),
         in_rows |-> TRUE]

InRows(c) == c.in_rows
HasStake(x) == x.stake # 0
TaoValueOf(cells) == [i \in 1..Len(cells) |-> cells[i].tao_value]
SwappedOf(cells) == [i \in 1..Len(cells) |-> cells[i].swapped_tao_value]
OwnershipOf(cells) == [i \in 1..Len(cells) |-> cells[i].own.added]

TableOf(cells, isLive) ==
    [live |-> isLive,
     cells |-> cells,
     rows |-> SelectSeq(cells, InRows),
     total_tao_ownership |-> FracSum(OwnershipOf(cells)),
     total_tao_value |-> FracSum(TaoValueOf(cells)),
     total_swapped_tao_value |-> FracSum(SwappedOf(cells))]

create_table(ss, info) ==
    LET sorted == sorted_substakes(ss, info)
    IN  TableOf([i \in 1..Len(sorted) |-> StaticCell(sorted[i], info)], FALSE)

create_live_table(ss, info) ==
    LET sorted == SelectSeq(sorted_substakes(ss, info), HasStake)
    IN  TableOf([i \in 1..Len(sorted) |-> LiveCell(sorted[i], info)], TRUE)

Netuids(ss) == {ss[i].netuid : i \in 1..Len(ss)}

\* one hotkey's substakes: one StakeInfo per netuid, in any order
SubstakeLists ==
    {ss \in UNION {[1..n -> [netuid : NetuidSet, stake : StakeValues]] :
                       n \in 1..Cardinality(NetuidSet)} :
        Cardinality(Netuids(ss)) = Len(ss)}

ListInit ==
    /\ pc = "start"
    /\ cmd = "stake_list"
    /\ live \in BOOLEAN
    /\ substakes \in SubstakeLists
    \* the static path sees only the non-zero substakes (lines 447-453)
    /\ ~live => \A i \in 1..Len(substakes) : substakes[i].stake # 0
    /\ dynamic_info \in [Netuids(substakes) -> UNION {PoolsOf(n) : n \in NetuidSet}]
    /\ \A n \in Netuids(substakes) : dynamic_info[n] \in PoolsOf(n)
    /\ previous_data = None
    /\ table = None
    /\ dynamic_info_ = <<>>
    /\ refresh = 0
    /\ completed = 0
    /\ CalcIdle
    /\ CmdIdle
    /\ MetaIdle

CreateTable ==
    /\ pc = "start"
    /\ cmd = "stake_list"
    /\ ~live
    /\ table' = create_table(substakes, dynamic_info)
    /\ pc' = "done"
    /\ UNCHANGED <<cmd, calcVars, substakes, dynamic_info, live, previous_data,
                   dynamic_info_, refresh, completed, cmdVars, metaVars>>

CreateLiveTable ==
    /\ pc = "start"
    /\ cmd = "stake_list"
    /\ live
    /\ table' = create_live_table(substakes, dynamic_info)
    /\ pc' = "done"
    /\ UNCHANGED <<cmd, calcVars, substakes, dynamic_info, live, previous_data,
                   dynamic_info_, refresh, completed, cmdVars, metaVars>>

ListNext == CreateTable \/ CreateLiveTable

ListSpec == ListInit /\ [][ListNext]_vars

Rendered == cmd = "stake_list" /\ pc = "done"

\* C6: in the static and in the live table, a position whose subnet has zero
\* issuance (alpha_out if dynamic, tao_in otherwise) gets a TAO ownership of
\* exactly zero, adds nothing to the total, and no division by the issuance
\* is performed.
C6_ZeroIssuanceZeroOwnership ==
    Rendered =>
        \A i \in 1..Len(table.cells) :
            table.cells[i].issuance = 0 =>
                /\ ~table.cells[i].own.divided
                /\ ~table.cells[i].own.fault
                /\ table.cells[i].own.added = FracZero
                /\ (table.cells[i].own.computed =>
                        table.cells[i].own.tao_ownership = FracZero)
                /\ (table.cells[i].in_rows => table.cells[i].own.computed)

C6_Witness ==
    /\ Rendered
    /\ \E i \in 1..Len(table.cells) :
           /\ table.cells[i].issuance = 0
           /\ table.cells[i].stake > DustThreshold
           /\ table.cells[i].netuid # 0
           /\ table.cells[i].own.computed
           /\ table.cells[i].own.tao_ownership = FracZero
    /\ \E j \in 1..Len(table.cells) :
           /\ table.cells[j].issuance # 0
           /\ table.cells[j].own.divided
           /\ FracLess(FracZero, table.cells[j].own.tao_ownership)

(***************************************************************************)
(* subnets.py: metagraph_cmd (lines 677-1169) and the local cache.         *)
(* Stakes, ranks and the like are in units of 0.00001; a Python value is a *)
(* record with its type: a str is the format that produced it and the      *)
(* numbers printed into it.                                                *)
(***************************************************************************)
MaxNeurons == 2

PyStr(fmt, a, b) == [py |-> "str", fmt |-> fmt, a |-> a, b |-> b]
PyInt(a) == [py |-> "int", fmt |-> "", a |-> a, b |-> 0]
PyFloat(a) == [py |-> "float", fmt |-> "", a |-> a, b |-> 0]
PyBool(a) == [py |-> "bool", fmt |-> "", a |-> IF a THEN 1 ELSE 0, b |-> 0]

\* "{:.4f}" keeps one digit fewer than the unit: round to the nearest q units
\* (the inputs below are never halfway)
Round(v, q) == (v + (q \div 2)) \div q

Cols == <<"UID", "GLOBAL_STAKE", "LOCAL_STAKE", "STAKE_WEIGHT", "RANK", "TRUST",
          "CONSENSUS", "INCENTIVE", "DIVIDENDS", "EMISSION", "VTRUST", "VAL",
          "UPDATED", "ACTIVE", "AXON", "HOTKEY", "COLDKEY">>
ColNames == {Cols[i] : i \in 1..Len(Cols)}

\* the neurons the chain can return for a uid: the global stake varies, the
\* rest follows the uid (even uids are active validators that serve an axon)
GlobalStakes == {12344, 12346}
Neuron(uid, global_stake) ==
    [uid |-> uid,
     global_stake |-> global_stake,
     local_stake |-> 20006 + uid,
     stake_weights |-> 30004 + uid,
     ranks |-> 10 + uid,
     trust |-> 20 + uid,
     consensus |-> 30 + uid,
     incentive |-> 40 + uid,
     dividends |-> 50 + uid,
     emission |-> 7 + uid,
     validator_trust |-> 60 + uid,
     validator_permit |-> uid % 2 = 0,
     last_update |-> 90 + uid,
     active |-> IF uid % 2 = 0 THEN 1 ELSE 0,
     is_serving |-> uid % 2 = 0,
     ip |-> 10 + uid,
     port |-> 8091,
     hotkey |-> 100 + uid,
     coldkey |-> 200 + uid]

\* the neuron lists the chain can return: up to MaxNeurons neurons, the global
\* stake of the first one varying
NeuronLists ==
    UNION {{[i \in 1..n |-> Neuron(i - 1, IF i = 1 THEN g ELSE 12344)] :
               g \in GlobalStakes} : n \in 0..MaxNeurons}

\* MiniGraph(netuid, neurons, ..., block), lines 730-736
MiniGraph(netuid, neurons, block) ==
    [netuid |-> netuid, neurons |-> neurons, n |-> Len(neurons), block |-> block]

RECURSIVE SumSeq(_)
SumSeq(seq) == IF seq = <<>> THEN 0 ELSE Head(seq) + SumSeq(Tail(seq))
Total(metagraph, field) ==
    SumSeq([i \in 1..Len(metagraph.neurons) |-> metagraph.neurons[i][field]])

\* lines 751-773: the formatted row of one neuron
row(metagraph, neuron) ==
    <<PyStr("{}", neuron.uid, 0),
      PyStr("{:.4f}", Round(neuron.global_stake, 10), 0),
      PyStr("{:.4f}", Round(neuron.local_stake, 10), 0),
      PyStr("{:.4f}", Round(neuron.stake_weights, 10), 0),
      PyStr("{:.5f}", neuron.ranks, 0),
      PyStr("{:.5f}", neuron.trust, 0),
      PyStr("{:.5f}", neuron.consensus, 0),
      PyStr("{:.5f}", neuron.incentive, 0),
      PyStr("{:.5f}", neuron.dividends, 0),
      PyStr("{}", neuron.emission, 0),
      PyStr("{:.5f}", neuron.validator_trust, 0),
      PyStr(IF neuron.validator_permit THEN "*" ELSE "", 0, 0),
      PyStr("{}", metagraph.block - neuron.last_update, 0),
      PyStr("{}", neuron.active, 0),
      IF neuron.is_serving
      THEN PyStr("{ip}:{port}", neuron.ip, neuron.port)
      ELSE PyStr("[light_goldenrod2]none[/light_goldenrod2]", 0, 0),
      PyStr("hotkey[:10]", neuron.hotkey, 0),
      PyStr("coldkey[:10]", neuron.coldkey, 0)>>

\* lines 774-792: the unformatted row written to the database table
db_row(metagraph, neuron) ==
    <<PyInt(neuron.uid),
      PyFloat(neuron.global_stake),
      PyFloat(neuron.local_stake),
      PyFloat(neuron.stake_weights),
      PyFloat(neuron.ranks),
      PyFloat(neuron.trust),
      PyFloat(neuron.consensus),
      PyFloat(neuron.incentive),
      PyFloat(neuron.dividends),
      PyInt(neuron.emission),
      PyFloat(neuron.validator_trust),
      PyBool(neuron.validator_permit),
      PyInt(metagraph.block - neuron.last_update),
      PyInt(neuron.active),
      IF neuron.is_serving
      THEN PyStr("{ip}:{port}", neuron.ip, neuron.port)
      ELSE PyStr("ERROR", 0, 0),
      PyStr("hotkey[:10]", neuron.hotkey, 0),
      PyStr("coldkey[:10]", neuron.coldkey, 0)>>

table_data(metagraph) ==
    [i \in 1..Len(metagraph.neurons) |-> row(metagraph, metagraph.neurons[i])]
db_table(metagraph) ==
    [i \in 1..Len(metagraph.neurons) |-> db_row(metagraph, metagraph.neurons[i])]

\* json.dumps of a list of lists: an array of arrays; a str becomes a JSON
\* string, an int or float a JSON number, a bool true or false
JsonOf(v) ==
    [json |-> IF v.py = "str" THEN "string"
              ELSE IF v.py = "bool" THEN "boolean" ELSE "number",
     fraction |-> v.py = "float",
     fmt |-> v.fmt, a |-> v.a, b |-> v.b]
json_dumps(rows) ==
    [py |-> "str",
     json |-> [i \in 1..Len(rows) |-> [j \in 1..Len(rows[i]) |-> JsonOf(rows[i][j])]]]

\* json.loads: arrays become lists, a JSON string a str, a number an int or
\* a float
PyOf(j) ==
    [py |-> IF j.json = "string" THEN "str"
            ELSE IF j.json = "boolean" THEN "bool"
            ELSE IF j.fraction THEN "float" ELSE "int",
     fmt |-> j.fmt, a |-> j.a, b |-> j.b]
json_loads(text) ==
    [i \in 1..Len(text.json) |-> [j \in 1..Len(text.json[i]) |-> PyOf(text.json[i][j])]]

\* mutant: the cache gets the database rows in place of the formatted ones
metadata_info_DbRows(metagraph, table_data_, network, total_issuance, difficulty) ==
    [total_global_stake |-> PyStr("t {:.5f}", Total(metagraph, "global_stake"), 0),
     total_local_stake |-> PyStr("{unit} {:.5f}",
                                 Total(metagraph, "local_stake"),
                                 metagraph.netuid),
     rank |-> PyStr("{:.5f}", Total(metagraph, "ranks"), 0),
     validator_trust |-> PyStr("{:.5f}", Total(metagraph, "validator_trust"), 0),
     trust |-> PyStr("{:.5f}", Total(metagraph, "trust"), 0),
     consensus |-> PyStr("{:.5f}", Total(metagraph, "consensus"), 0),
     incentive |-> PyStr("{:.5f}", Total(metagraph, "incentive"), 0),
     dividends |-> PyStr("{:.5f}", Total(metagraph, "dividends"), 0),
     emission |-> PyStr("p{}", Total(metagraph, "emission"), 0),
     net |-> PyStr("{network}:{netuid}", network, metagraph.netuid),
     block |-> PyStr("{}", metagraph.block, 0),
     N |-> PyStr("{}/{}", Total(metagraph, "active"), metagraph.n),
     N0 |-> PyStr("{}", Total(metagraph, "active"), 0),
     N1 |-> PyStr("{}", metagraph.n, 0),
     issuance |-> PyStr("{Balance}", total_issuance, 0),
     difficulty |-> PyStr("{}", difficulty, 0),
     total_neurons |-> PyStr("{}", Len(metagraph.neurons), 0),
     table_data |-> json_dumps(db_table(metagraph))]

\* lines 804-824
metadata_info(metagraph, table_data_, network, total_issuance, difficulty) ==
    [total_global_stake |-> PyStr("t {:.5f}", Total(metagraph, "global_stake"), 0),
     total_local_stake |-> PyStr("{unit} {:.5f}",
                                 Total(metagraph, "local_stake"),
                                 metagraph.netuid),
     rank |-> PyStr("{:.5f}", Total(metagraph, "ranks"), 0),
     validator_trust |-> PyStr("{:.5f}", Total(metagraph, "validator_trust"), 0),
     trust |-> PyStr("{:.5f}", Total(metagraph, "trust"), 0),
     consensus |-> PyStr("{:.5f}", Total(metagraph, "consensus"), 0),
     incentive |-> PyStr("{:.5f}", Total(metagraph, "incentive"), 0),
     dividends |-> PyStr("{:.5f}", Total(metagraph, "dividends"), 0),
     emission |-> PyStr("p{}", Total(metagraph, "emission"), 0),
     net |-> PyStr("{network}:{netuid}", network, metagraph.netuid),
     block |-> PyStr("{}", metagraph.block, 0),
     N |-> PyStr("{}/{}", Total(metagraph, "active"), metagraph.n),
     N0 |-> PyStr("{}", Total(metagraph, "active"), 0),
     N1 |-> PyStr("{}", metagraph.n, 0),
     issuance |-> PyStr("{Balance}", total_issuance, 0),
     difficulty |-> PyStr("{}", difficulty, 0),
     total_neurons |-> PyStr("{}", Len(metagraph.neurons), 0),
     table_data |-> json_dumps(table_data_)]

\* the cache: update_metadata_table writes each key of values under the table
\* name, replacing the key's earlier value; get_metadata_table reads the
\* keys back, and fails with sqlite3.OperationalError while nothing was written
update_metadata_table(db, table_name, values) ==
    LET old == IF table_name \in DOMAIN db THEN db[table_name] ELSE <<>>
        merged == [k \in DOMAIN old \cup DOMAIN values |->
                       IF k \in DOMAIN values THEN values[k] ELSE old[k]]
    IN  [t \in DOMAIN db \cup {table_name} |->
             IF t = table_name THEN merged ELSE db[t]]
OperationalError(db, table_name) == table_name \notin DOMAIN db
get_metadata_table(db, table_name) == db[table_name]

\* display_cols as the configuration can give it: all columns, none, or some
DisplayChoices ==
    {[k \in ColNames |-> TRUE],
     [k \in ColNames |-> FALSE],
     [k \in ColNames |-> k \notin {"GLOBAL_STAKE", "TRUST", "AXON"}]}

\* lines 949-1123: the footer and the header of a column
Footer(k, info) ==
    CASE k = "UID" -> info.total_neurons
      [] k = "GLOBAL_STAKE" -> info.total_global_stake
      [] k = "LOCAL_STAKE" -> info.total_local_stake
      [] k = "RANK" -> info.rank
      [] k = "TRUST" -> info.trust
      [] k = "CONSENSUS" -> info.consensus
      [] k = "INCENTIVE" -> info.incentive
      [] k = "DIVIDENDS" -> info.dividends
      [] k = "EMISSION" -> info.emission
      [] k = "VTRUST" -> info.validator_trust
      [] OTHER -> PyStr("", 0, 0)
Header(k, netuid) ==
    IF k \in {"LOCAL_STAKE", "STAKE_WEIGHT"}
    THEN PyStr(k, netuid, 0)
    ELSE PyStr(k, 0, 0)

\* lines 1124-1129: the positions in Cols of the columns to show, in order
table_cols_indices(display_cols) ==
    SelectSeq([i \in 1..Len(Cols) |-> i], LAMBDA i : display_cols[Cols[i]])

\* lines 1131-1169: the terminal table
Table(info, rows, display_cols, netuid) ==
    LET idx == table_cols_indices(display_cols)
    IN  [rendered |-> TRUE,
         headers |-> [i \in 1..Len(idx) |-> Header(Cols[idx[i]], netuid)],
         title |-> <<info.net, info.block, info.N0, info.N1,
                     info.total_local_stake, info.issuance, info.difficulty>>,
         footers |-> [i \in 1..Len(idx) |-> Footer(Cols[idx[i]], info)],
         rows |-> IF \A k \in ColNames : ~display_cols[k]
                  THEN <<<<PyStr(" * 256", 0, 0)>>>>
                  ELSE IF \E k \in ColNames : ~display_cols[k]
                  THEN [r \in 1..Len(rows) |-> [i \in 1..Len(idx) |-> rows[r][idx[i]]]]
                  ELSE rows]

\* the keys of metadata_info the HTML title reads (lines 868-873)
HtmlKeys == {"net", "block", "N", "stake", "issuance", "difficulty"}
\* the keys the terminal table reads: the footers of cols, built for every
\* column whatever display_cols says (lines 949-1062), and the title
\* (lines 1144-1149)
TerminalKeys ==
    {"total_neurons", "total_global_stake", "total_local_stake", "rank", "trust",
     "consensus", "incentive", "dividends", "emission", "validator_trust",
     "net", "block", "N0", "N1", "issuance", "difficulty"}

\* lines 863-1169: what the run shows; reading a key metadata_info does not
\* have raises KeyError, which the try of the HTML path (line 942) lets through
Display(run, info, rows) ==
    IF run.html_output
    THEN IF HtmlKeys \subseteq DOMAIN info
         THEN [run EXCEPT !.result = ReturnNone]
         ELSE [run EXCEPT !.result = RaiseKeyError]
    ELSE IF ~(TerminalKeys \subseteq DOMAIN info)
    THEN [run EXCEPT !.result = RaiseKeyError]
    ELSE [run EXCEPT
            !.result = ReturnNone,
            !.printed = IF \A k \in ColNames : ~run.display_cols[k]
                        THEN <<"You have selected no columns to display">>
                        ELSE IF \E k \in ColNames : ~run.display_cols[k]
                        THEN <<"Limiting column display output">>
                        ELSE <<>>,
            !.table = Table(info, rows, run.display_cols, run.netuid)]

NewRun(reuse_last, netuid, html_output, no_cache, display_cols) ==
    [ran |-> TRUE, reuse_last |-> reuse_last, netuid |-> netuid,
     html_output |-> html_output, no_cache |-> no_cache,
     display_cols |-> display_cols, cache |-> "", result |-> "",
     printed |-> <<>>, table |-> NoTable]

MetagraphInit ==
    /\ pc = "start"
    /\ cmd = "metagraph_cmd"
    /\ MetaIdle
    /\ CalcIdle
    /\ ListIdle
    /\ CmdIdle

\* what the chain answers to the fetch: no such subnet (line 696), no subnet
\* state (line 719), or the neurons
NoSubnet == "subnet_exists is False"
NoSubnetState == "get_subnet_state is empty"

\* a run with reuse_last unset, lines 687-849 and 863-1169
MetagraphFetch ==
    /\ cmd = "metagraph_cmd"
    /\ \E html_output \in BOOLEAN, no_cache \in BOOLEAN, display_cols \in DisplayChoices :
           LET run == NewRun(FALSE, 1, html_output, no_cache, display_cols)
           IN  \/ /\ last_run' = [run EXCEPT !.result = ReturnFalse,
                                             !.printed = <<NoSubnet>>]
                  /\ UNCHANGED <<metadata, cache_run>>
               \/ /\ last_run' = [run EXCEPT !.result = ReturnNone,
                                             !.printed = <<NoSubnetState>>]
                  /\ UNCHANGED <<metadata, cache_run>>
               \/ \E neurons \in NeuronLists :
                      LET metagraph == MiniGraph(1, neurons, 100)
                          rows == table_data(metagraph)
                          info == metadata_info(metagraph, rows, 1, 21000000, 10000000)
                          shown == Display(run, info, rows)
                      IN  /\ last_run' = shown
                          /\ IF no_cache
                             THEN UNCHANGED <<metadata, cache_run>>
                             ELSE /\ metadata' =
                                       update_metadata_table(metadata, "metagraph", info)
                                  /\ cache_run' = shown
    /\ pc' = "done"
    /\ UNCHANGED <<cmd, calcVars, listVars, cmdVars>>

\* a cached table_data text that is no longer JSON (a damaged cache);
\* json.loads raises json.JSONDecodeError on it
DamagedText == [py |-> "str", json |-> <<>>, damaged |-> TRUE]
JSONDecodeError(text) == "damaged" \in DOMAIN text

\* a run with reuse_last set, lines 850-861 and 863-1169; its netuid is not
\* the fetched one; the try around the cache read catches
\* sqlite3.OperationalError only
MetagraphReuse ==
    /\ cmd = "metagraph_cmd"
    /\ \E html_output \in BOOLEAN, display_cols \in DisplayChoices :
           LET run == NewRun(TRUE, 2, html_output, FALSE, display_cols)
           IN  IF OperationalError(metadata, "metagraph")
               THEN last_run' = [run EXCEPT !.cache = "absent",
                                            !.result = ReturnNone,
                                            !.printed = <<"Unable to retrieve table data">>]
               ELSE LET info == get_metadata_table(metadata, "metagraph")
                    IN  IF JSONDecodeError(info.table_data)
                        THEN last_run' = [run EXCEPT !.cache = "corrupted",
                                                     !.result = RaiseJSONDecodeError]
                        ELSE last_run' = Display([run EXCEPT !.cache = "intact"], info,
                                                 json_loads(info.table_data))
    /\ pc' = "done"
    /\ UNCHANGED <<cmd, metadata, cache_run, calcVars, listVars, cmdVars>>

\* between runs the cache file can be damaged: the stored table_data text
\* stops being JSON
CacheDamaged ==
    /\ cmd = "metagraph_cmd"
    /\ ~OperationalError(metadata, "metagraph")
    /\ metadata' = [metadata EXCEPT !["metagraph"] =
                        [k \in DOMAIN metadata["metagraph"] |->
                             IF k = "table_data"
                             THEN DamagedText
                             ELSE metadata["metagraph"][k]]]
    /\ UNCHANGED <<pc, cmd, last_run, cache_run, calcVars, listVars, cmdVars>>

MetagraphNext == MetagraphFetch \/ MetagraphReuse \/ CacheDamaged

MetagraphSpec == MetagraphInit /\ [][MetagraphNext]_vars

\* C7: when a run with reuse_last has rendered the terminal table, and the
\* fetch run that last wrote the cache rendered it with the same display
\* columns, the two tables have the same rows, the same footers and the same
\* title values.
C7_ReuseReproducesFetch ==
    (/\ last_run.ran /\ last_run.reuse_last /\ last_run.table.rendered
     /\ cache_run.ran /\ cache_run.table.rendered
     /\ \A k \in ColNames : cache_run.display_cols[k] = last_run.display_cols[k]) =>
        /\ last_run.table.rows = cache_run.table.rows
        /\ last_run.table.footers = cache_run.table.footers
        /\ last_run.table.title = cache_run.table.title

\* a reuse run rendered two neurons' rows with some columns hidden, after a
\* fetch that cached them under the same columns
C7_Witness ==
    /\ last_run.ran /\ last_run.reuse_last /\ last_run.table.rendered
    /\ cache_run.ran /\ cache_run.table.rendered
    /\ \A k \in ColNames : cache_run.display_cols[k] = last_run.display_cols[k]
    /\ \E k \in ColNames : last_run.display_cols[k]
    /\ \E k \in ColNames : ~last_run.display_cols[k]
    /\ Len(last_run.table.rows) = 2
    /\ Len(last_run.table.rows[1]) = Len(Cols) - 3

(***************************************************************************)
(* remove.py: the extrinsic wrappers.  The chain's answer to one           *)
(* submit_extrinsic call is an input of the step: inclusion with success,  *)
(* inclusion with a failure, or an exception raised by the call.           *)
(***************************************************************************)
Success == "success"
ChainFailure == "is_success = False"
CustomError8 == "SubstrateRequestException: Custom error: 8"
RequestException == "SubstrateRequestException"
OtherException == "Exception"
SubmitOutcomes == {Success, ChainFailure, CustomError8, RequestException, OtherException}
Exceptions == {CustomError8, RequestException, OtherException}
\* the answer as the history keeps it
AnswerOf(outcome) == IF outcome \in Exceptions THEN "exception" ELSE outcome

\* a printed message: its text, the planned operation or the (hotkey, netuid)
\* pair it is about, and the error text it carries
Msg(kind, k) == [kind |-> kind, op |-> k, about |-> <<>>, error |-> ""]
PairMsg(kind, hk, netuid) ==
    [kind |-> kind, op |-> 0, about |-> <<hk, netuid>>, error |-> ""]
FailureMsg(k, error) ==
    [kind |-> "Failed to unstake", op |-> k, about |-> <<>>, error |-> error]

remove_stake(op) ==
    [call_function |-> "remove_stake",
     hotkey |-> op.hotkey_ss58,
     netuid |-> op.netuid,
     amount_unstaked |-> op.amount_to_unstake]

remove_stake_limit(op, allow_partial_stake) ==
    [call_function |-> "remove_stake_limit",
     hotkey |-> op.hotkey_ss58,
     netuid |-> op.netuid,
     amount_unstaked |-> op.amount_to_unstake,
     limit_price |-> op.price_with_tolerance,
     allow_partial |-> allow_partial_stake]

\* what one call of an extrinsic wrapper did: the calls it composed and
\* submitted, what it printed, whether it re-queried balance and stake, and
\* the exception it let through ("" when it returned)
Effects(calls, msgs, requery, exc) ==
    [composed |-> calls, submitted |-> calls, printed |-> msgs,
     requeried |-> requery, raised |-> exc]

SuccessMsgs(k) == <<Msg("Finalized", k), Msg("Balance", k), Msg("Stake", k)>>

\* mutant: the return after the failure message is missing
_unstake_extrinsic_NoReturn(k, op, outcome) ==
    IF outcome \in Exceptions
    THEN Effects(<<remove_stake(op)>>, <<FailureMsg(k, "str(e)")>>, FALSE, "")
    ELSE IF outcome = ChainFailure
    THEN Effects(<<remove_stake(op)>>,
                 <<FailureMsg(k, "response.error_message")>> \o SuccessMsgs(k),
                 TRUE, "")
    ELSE Effects(<<remove_stake(op)>>, SuccessMsgs(k), TRUE, "")

\* _unstake_extrinsic, lines 511-590: k is the position of op in the plan
_unstake_extrinsic(k, op, outcome) ==
    IF outcome \in Exceptions
    THEN Effects(<<remove_stake(op)>>, <<FailureMsg(k, "str(e)")>>, FALSE, "")
    ELSE IF outcome = ChainFailure
    THEN Effects(<<remove_stake(op)>>,
                 <<FailureMsg(k, "response.error_message")>>, FALSE, "")
    ELSE Effects(<<remove_stake(op)>>, SuccessMsgs(k), TRUE, "")

\* mutant: every SubstrateRequestException gets the generic message
_safe_unstake_extrinsic_NoCode8(k, op, allow_partial_stake, outcome) ==
    LET calls == <<remove_stake_limit(op, allow_partial_stake)>>
    IN  IF outcome \in {CustomError8, RequestException}
        THEN Effects(calls, <<FailureMsg(k, "format_error_message(e)")>>, FALSE, "")
        ELSE IF outcome = OtherException
        THEN Effects(calls, <<>>, FALSE, RaiseException)
        ELSE IF outcome = ChainFailure
        THEN Effects(calls, <<FailureMsg(k, "response.error_message")>>, FALSE, "")
        ELSE Effects(calls, SuccessMsgs(k), TRUE, "")

\* _safe_unstake_extrinsic, lines 593-709
_safe_unstake_extrinsic(k, op, allow_partial_stake, outcome) ==
    LET calls == <<remove_stake_limit(op, allow_partial_stake)>>
    IN  IF outcome = CustomError8
        THEN Effects(calls, <<Msg("Price exceeded tolerance limit", k)>>, FALSE, "")
        ELSE IF outcome = RequestException
        THEN Effects(calls, <<FailureMsg(k, "format_error_message(e)")>>, FALSE, "")
        ELSE IF outcome = OtherException
        THEN Effects(calls, <<>>, FALSE, RaiseException)
        ELSE IF outcome = ChainFailure
        THEN Effects(calls, <<FailureMsg(k, "response.error_message")>>, FALSE, "")
        ELSE Effects(calls, SuccessMsgs(k), TRUE, "")

(***************************************************************************)
(* remove.py: unstake (lines 31-308), the non-interactive path.            *)
(***************************************************************************)
MaxStake == 2

Hotkeys == {"hk1", "hk2"}
ChainNetuids == {0, 1}
NoStake == -1
\* the pools of the two subnets while unstake plans: root is fixed-rate
all_sn_dynamic_info == [n \in ChainNetuids |->
                            IF n = 0 THEN Pool(FALSE, 4, 4) ELSE Pool(TRUE, 4, 2)]
RateTolerances == {Frac(1, 20)}

\* the stake snapshots of the coldkey: a StakeInfo per (hotkey, netuid), or
\* none; the second hotkey holds MaxStake wherever it has a StakeInfo
StakeSnapshots ==
    {snap \in [Hotkeys -> [ChainNetuids -> NoStake..MaxStake]] :
        \A n \in ChainNetuids : snap["hk2"][n] \in {NoStake, MaxStake}}

UnstakeArgs ==
    {a \in [hotkeys_to_unstake_from : {<<"hk1">>, <<"hk1", "hk2">>},
            netuids : {<<1>>, <<0, 1>>},
            amount : 0..(MaxStake + 1),
            prompt : BOOLEAN,
            safe_staking : BOOLEAN,
            rate_tolerance : RateTolerances,
            allow_partial_stake : BOOLEAN] :
        ~a.safe_staking => ~a.allow_partial_stake}

\* stake_in_netuids has a hotkey exactly when the chain returned a StakeInfo
\* for it (lines 111-117)
HotkeyInSnapshot(hk) == \E n \in ChainNetuids : stake_in_netuids[hk][n] # NoStake

\* the answers _ask_unstake_amount can return for a stake: None on 'q' (Quit
\* here), the whole stake on 'y', or an entered amount in 1..stake
Quit == 0
AskResults(stake) == {Quit} \cup (1..stake)

\* Balance.rao: a balance of TAO counted in rao
RaoPerTao == 1000000000
rao(balance) == FracMul(balance, FracOfInt(RaoPerTao))

\* the prompt of _ask_unstake_amount on the terminal, with the answer typed
Asked(hk, netuid, amt) ==
    PairMsg(IF amt = Quit THEN "Unstake all? [y/n/q]: q" ELSE "Unstake all? [y/n/q]: amount",
            hk, netuid)

\* lines 188-232
PlannedOp(hk, netuid, amt, stake) ==
    LET subnet_info_ == all_sn_dynamic_info[netuid]
        slip == _calculate_slippage(subnet_info_, amt)
    IN  [netuid |-> netuid,
         hotkey_ss58 |-> hk,
         amount_to_unstake |-> amt,
         current_stake_balance |-> stake,
         received_amount |-> slip.received_amount,
         slippage_pct_float |-> slip.slippage_pct_float,
         price_with_tolerance |->
             IF ~args.safe_staking
             THEN FracZero
             ELSE IF subnet_info_.is_dynamic
             THEN FracMul(rao(price(subnet_info_)),
                          FracSub(FracOfInt(1), args.rate_tolerance))
             ELSE FracOfInt(1)]

CmdStart ==
    /\ op_i = 1
    /\ unlocked = "locked"
    /\ composed = <<>>
    /\ submitted = <<>>
    /\ answers = <<>>
    /\ requeried = {}
    /\ printed = <<>>
    /\ result = Running
    /\ CalcIdle
    /\ ListIdle
    /\ MetaIdle

UnstakeInit ==
    /\ cmd = "unstake"
    /\ pc = "plan"
    /\ args \in UnstakeArgs
    /\ stake_in_netuids \in StakeSnapshots
    /\ hk_i = 1
    /\ nu_i = 1
    /\ unstake_operations = <<>>
    /\ CmdStart

\* mutant: the amount is not compared with the stake
NotEnoughStake_Unchecked(amt, stake) ==
    FALSE

\* line 181: amount_to_unstake_as_balance > current_stake_balance
NotEnoughStake(amt, stake) ==
    amt > stake

\* mutant: a quit leaves the netuid loop only
NextPair_InnerBreak(quit) ==
    IF quit
    THEN /\ hk_i' = hk_i + 1
         /\ nu_i' = 1
    ELSE IF nu_i < Len(args.netuids)
    THEN /\ hk_i' = hk_i
         /\ nu_i' = nu_i + 1
    ELSE /\ hk_i' = hk_i + 1
         /\ nu_i' = 1

\* the loop indices after the pair (hk_i, nu_i): the next netuid, or the next
\* hotkey; a quit ends both loops
NextPair(quit) ==
    IF quit
    THEN /\ hk_i' = Len(args.hotkeys_to_unstake_from) + 1
         /\ nu_i' = 1
    ELSE IF nu_i < Len(args.netuids)
    THEN /\ hk_i' = hk_i
         /\ nu_i' = nu_i + 1
    ELSE /\ hk_i' = hk_i + 1
         /\ nu_i' = 1

\* mutant: the over-amount check leaves the planning loops instead of going on
PlanPair_BreakOnTooMuch ==
    /\ cmd = "unstake"
    /\ pc = "plan"
    /\ hk_i <= Len(args.hotkeys_to_unstake_from)
    /\ LET hk == args.hotkeys_to_unstake_from[hk_i]
           netuid == args.netuids[nu_i]
           stake == stake_in_netuids[hk][netuid]
       IN  IF ~HotkeyInSnapshot(hk)
           THEN /\ printed' = Append(printed,
                       PairMsg("No stake found for hotkey", hk, netuid))
                /\ NextPair(FALSE)
                /\ UNCHANGED unstake_operations
           ELSE IF stake = NoStake \/ stake = 0
           THEN /\ printed' = Append(printed, PairMsg("No stake to unstake", hk, netuid))
                /\ NextPair(FALSE)
                /\ UNCHANGED unstake_operations
           ELSE \E amt \in (IF args.amount # 0 THEN {args.amount} ELSE AskResults(stake)) :
                    IF args.amount = 0 /\ amt = Quit
                    THEN /\ NextPair(TRUE)
                         /\ printed' = Append(printed, Asked(hk, netuid, amt))
                         /\ UNCHANGED unstake_operations
                    ELSE IF amt > stake
                    THEN /\ printed' = Append(printed,
                                PairMsg("Not enough stake to remove", hk, netuid))
                         /\ NextPair(TRUE)
                         /\ UNCHANGED unstake_operations
                    ELSE /\ unstake_operations' =
                                Append(unstake_operations, PlannedOp(hk, netuid, amt, stake))
                         /\ NextPair(FALSE)
                         /\ printed' = IF args.amount = 0
                                       THEN Append(printed, Asked(hk, netuid, amt))
                                       ELSE printed
    /\ UNCHANGED <<pc, cmd, args, stake_in_netuids, chainVars, result, calcVars, listVars, metaVars>>

\* one iteration of the planning loops, lines 131-241
PlanPair ==
    /\ cmd = "unstake"
    /\ pc = "plan"
    /\ hk_i <= Len(args.hotkeys_to_unstake_from)
    /\ LET hk == args.hotkeys_to_unstake_from[hk_i]
           netuid == args.netuids[nu_i]
           stake == stake_in_netuids[hk][netuid]
       IN  IF ~HotkeyInSnapshot(hk)
           THEN /\ printed' = Append(printed,
                       PairMsg("No stake found for hotkey", hk, netuid))
                /\ NextPair(FALSE)
                /\ UNCHANGED unstake_operations
           ELSE IF stake = NoStake \/ stake = 0
           THEN /\ printed' = Append(printed, PairMsg("No stake to unstake", hk, netuid))
                /\ NextPair(FALSE)
                /\ UNCHANGED unstake_operations
           ELSE \E amt \in (IF args.amount # 0 THEN {args.amount} ELSE AskResults(stake)) :
                    IF args.amount = 0 /\ amt = Quit
                    THEN /\ NextPair(TRUE)
                         /\ printed' = Append(printed, Asked(hk, netuid, amt))
                         /\ UNCHANGED unstake_operations
                    ELSE IF NotEnoughStake(amt, stake)
                    THEN /\ printed' = Append(printed,
                                PairMsg("Not enough stake to remove", hk, netuid))
                         /\ NextPair(FALSE)
                         /\ UNCHANGED unstake_operations
                    ELSE /\ unstake_operations' =
                                Append(unstake_operations, PlannedOp(hk, netuid, amt, stake))
                         /\ NextPair(FALSE)
                         /\ printed' = IF args.amount = 0
                                       THEN Append(printed, Asked(hk, netuid, amt))
                                       ELSE printed
    /\ UNCHANGED <<pc, cmd, args, stake_in_netuids, chainVars, result, calcVars, listVars, metaVars>>

\* lines 243-258: nothing planned, or the summary table
PlanDone ==
    /\ cmd = "unstake"
    /\ pc = "plan"
    /\ hk_i > Len(args.hotkeys_to_unstake_from)
    /\ IF unstake_operations = <<>>
       THEN /\ printed' = Append(printed, Msg("No unstake operations to perform", 0))
            /\ result' = ReturnFalse
            /\ pc' = "done"
       ELSE /\ printed' = Append(printed, Msg("table", 0))
            /\ pc' = "confirm"
            /\ UNCHANGED result
    /\ UNCHANGED <<cmd, args, planVars, chainVars, calcVars, listVars, metaVars>>

\* Confirm.ask with the answer the user gave
Confirmed(answer) ==
    Msg(IF answer THEN "Would you like to continue? [y/n]: y"
                  ELSE "Would you like to continue? [y/n]: n", 0)

\* mutant: the answer to the confirmation is not looked at
UnstakeConfirm_AnswerIgnored ==
    /\ cmd = "unstake"
    /\ pc = "confirm"
    /\ \E answer \in (IF args.prompt THEN BOOLEAN ELSE {TRUE}) :
           /\ pc' = "unlock"
           /\ UNCHANGED result
           /\ printed' = IF args.prompt THEN Append(printed, Confirmed(answer))
                                        ELSE printed
    /\ UNCHANGED <<cmd, args, planVars, chainVars, calcVars, listVars, metaVars>>

\* lines 259-261: Confirm.ask; a refusal raises typer.Exit
UnstakeConfirm ==
    /\ cmd = "unstake"
    /\ pc = "confirm"
    /\ \E answer \in (IF args.prompt THEN BOOLEAN ELSE {TRUE}) :
           /\ IF answer
              THEN pc' = "unlock" /\ UNCHANGED result
              ELSE pc' = "done" /\ result' = RaiseExit
           /\ printed' = IF args.prompt THEN Append(printed, Confirmed(answer))
                                        ELSE printed
    /\ UNCHANGED <<cmd, args, planVars, chainVars, calcVars, listVars, metaVars>>

\* mutant: the except branch reports the error and falls through
UnstakeUnlock_NoReturn ==
    /\ cmd = "unstake"
    /\ pc = "unlock"
    /\ \E KeyFileError \in BOOLEAN :
           IF KeyFileError
           THEN /\ printed' = Append(printed, Msg("Error decrypting coldkey", 0))
                /\ unlocked' = "KeyFileError"
                /\ pc' = "submit"
                /\ UNCHANGED result
           ELSE /\ unlocked' = "unlocked"
                /\ pc' = "submit"
                /\ UNCHANGED <<printed, result>>
    /\ UNCHANGED <<cmd, args, planVars, op_i, composed, submitted, answers, requeried,
                   calcVars, listVars, metaVars>>

\* lines 264-268: wallet.unlock_coldkey() may raise KeyFileError
UnstakeUnlock ==
    /\ cmd = "unstake"
    /\ pc = "unlock"
    /\ \E KeyFileError \in BOOLEAN :
           IF KeyFileError
           THEN /\ printed' = Append(printed, Msg("Error decrypting coldkey", 0))
                /\ unlocked' = "KeyFileError"
                /\ result' = ReturnFalse
                /\ pc' = "done"
           ELSE /\ unlocked' = "unlocked"
                /\ pc' = "submit"
                /\ UNCHANGED <<printed, result>>
    /\ UNCHANGED <<cmd, args, planVars, op_i, composed, submitted, answers, requeried,
                   calcVars, listVars, metaVars>>

\* mutant: safe mode without the netuid 0 exception
SubmitWith_NoRootCase(k, outcome) ==
    LET op == unstake_operations[k]
    IN  IF args.safe_staking
        THEN _safe_unstake_extrinsic(k, op, args.allow_partial_stake, outcome)
        ELSE _unstake_extrinsic(k, op, outcome)

\* lines 271-305: which wrapper submits the operation at position k
SubmitWith(k, outcome) ==
    LET op == unstake_operations[k]
    IN  IF args.safe_staking /\ op.netuid # 0
        THEN _safe_unstake_extrinsic(k, op, args.allow_partial_stake, outcome)
        ELSE _unstake_extrinsic(k, op, outcome)

\* the answer as the wrapper for position k tells it apart: the safe wrapper
\* looks at the kind of exception, the standard one does not
AnswerSeen(k, outcome) ==
    IF args.safe_staking /\ unstake_operations[k].netuid # 0
    THEN outcome
    ELSE AnswerOf(outcome)

\* the calls the wrapper for position k hands to the chain; they are composed
\* before the chain answers, so the answer plays no part
CallsFor(k) == SubmitWith(k, Success).submitted

\* mutant: the remaining operations are handed over together, not one by one
SubmitOp_Gather ==
    /\ cmd = "unstake"
    /\ pc = "submit"
    /\ op_i <= Len(unstake_operations)
    /\ composed' = composed \o CallsFor(op_i)
    /\ submitted' = submitted \o
           [j \in 1..(Len(unstake_operations) - op_i + 1) |-> CallsFor(op_i + j - 1)[1]]
    /\ pc' = "await"
    /\ UNCHANGED <<cmd, args, planVars, op_i, unlocked, answers, requeried, outVars,
                   calcVars, listVars, metaVars>>

\* one iteration of the submission loop, up to `await submit_extrinsic(...)`
\* (lines 545-559 and 639-654): the extrinsic of operation op_i is in flight
SubmitOp ==
    /\ cmd = "unstake"
    /\ pc = "submit"
    /\ op_i <= Len(unstake_operations)
    /\ composed' = composed \o CallsFor(op_i)
    /\ submitted' = submitted \o CallsFor(op_i)
    /\ pc' = "await"
    /\ UNCHANGED <<cmd, args, planVars, op_i, unlocked, answers, requeried, outVars,
                   calcVars, listVars, metaVars>>

\* the rest of the iteration: submit_extrinsic returns or raises, the wrapper
\* reports, and the loop goes on to the next operation
AwaitOp ==
    /\ cmd = "unstake"
    /\ pc = "await"
    /\ \E outcome \in SubmitOutcomes :
           LET eff == SubmitWith(op_i, outcome)
           IN  /\ answers' = Append(answers, AnswerSeen(op_i, outcome))
               /\ printed' = printed \o eff.printed
               /\ requeried' = IF eff.requeried THEN requeried \cup {op_i} ELSE requeried
               /\ IF eff.raised = ""
                  THEN /\ op_i' = op_i + 1
                       /\ pc' = "submit"
                       /\ UNCHANGED result
                  ELSE /\ pc' = "done"
                       /\ result' = eff.raised
                       /\ UNCHANGED op_i
    /\ UNCHANGED <<cmd, args, planVars, unlocked, composed, submitted,
                   calcVars, listVars, metaVars>>

\* lines 306-308
UnstakeCompleted ==
    /\ cmd = "unstake"
    /\ pc = "submit"
    /\ op_i > Len(unstake_operations)
    /\ printed' = Append(printed, Msg("Unstaking operations completed", 0))
    /\ result' = ReturnNone
    /\ pc' = "done"
    /\ UNCHANGED <<cmd, args, planVars, chainVars, calcVars, listVars, metaVars>>

(***************************************************************************)
(* remove.py: unstake_all (lines 311-507).                                 *)
(***************************************************************************)
UnstakeAllArgs ==
    [hotkey_ss58_address : Hotkeys,
     unstake_all_alpha : BOOLEAN,
     prompt : BOOLEAN]

\* mutant: netuid 0 is kept when only alpha is unstaked
stake_info_WithRoot(hotkey_ss58_address, unstake_all_alpha) ==
    {n \in ChainNetuids : stake_in_netuids[hotkey_ss58_address][n] # NoStake}

\* lines 339-344: the netuids of the coldkey's StakeInfo on the target hotkey
stake_info(hotkey_ss58_address, unstake_all_alpha) ==
    {n \in ChainNetuids :
        /\ stake_in_netuids[hotkey_ss58_address][n] # NoStake
        /\ unstake_all_alpha => n # 0}

\* lines 402-434: the summary rows, one per StakeInfo with a non-zero stake
UnstakeAllRows(hotkey_ss58_address, unstake_all_alpha) ==
    {<<n, stake_in_netuids[hotkey_ss58_address][n]>> :
        n \in {m \in stake_info(hotkey_ss58_address, unstake_all_alpha) :
                  stake_in_netuids[hotkey_ss58_address][m] # 0}}

UnstakeAllInit ==
    /\ cmd = "unstake_all"
    /\ pc = "start"
    /\ args \in UnstakeAllArgs
    /\ stake_in_netuids \in StakeSnapshots
    /\ hk_i = 1
    /\ nu_i = 1
    /\ unstake_operations = <<>>
    /\ CmdStart

\* lines 320-445
UnstakeAllFetch ==
    /\ cmd = "unstake_all"
    /\ pc = "start"
    /\ IF stake_info(args.hotkey_ss58_address, args.unstake_all_alpha) = {}
       THEN /\ printed' = Append(printed, Msg("No stakes found to unstake", 0))
            /\ result' = ReturnFalse
            /\ pc' = "done"
       ELSE /\ printed' = Append(printed,
                   [kind |-> "table", op |-> 0,
                    about |-> UnstakeAllRows(args.hotkey_ss58_address,
                                             args.unstake_all_alpha),
                    error |-> ""])
            /\ pc' = "confirm"
            /\ UNCHANGED result
    /\ UNCHANGED <<cmd, args, planVars, chainVars, calcVars, listVars, metaVars>>

\* Confirm.ask with the answer the user gave
Proceed(answer) ==
    Msg(IF answer THEN "Do you want to proceed with unstaking everything? [y/n]: y"
                  ELSE "Do you want to proceed with unstaking everything? [y/n]: n", 0)

\* lines 447-450
UnstakeAllConfirm ==
    /\ cmd = "unstake_all"
    /\ pc = "confirm"
    /\ \E answer \in (IF args.prompt THEN BOOLEAN ELSE {TRUE}) :
           /\ IF answer
              THEN pc' = "unlock" /\ UNCHANGED result
              ELSE pc' = "done" /\ result' = ReturnFalse
           /\ printed' = IF args.prompt THEN Append(printed, Proceed(answer))
                                        ELSE printed
    /\ UNCHANGED <<cmd, args, planVars, chainVars, calcVars, listVars, metaVars>>

\* lines 452-456
UnstakeAllUnlock ==
    /\ cmd = "unstake_all"
    /\ pc = "unlock"
    /\ \E KeyFileError \in BOOLEAN :
           IF KeyFileError
           THEN /\ printed' = Append(printed, Msg("Error decrypting coldkey", 0))
                /\ unlocked' = "KeyFileError"
                /\ result' = ReturnFalse
                /\ pc' = "done"
           ELSE /\ unlocked' = "unlocked"
                /\ pc' = "submit"
                /\ UNCHANGED <<printed, result>>
    /\ UNCHANGED <<cmd, args, planVars, op_i, composed, submitted, answers, requeried,
                   calcVars, listVars, metaVars>>

\* lines 468-507: sign_and_send_extrinsic returns (success, error_message)
UnstakeAllSubmit ==
    /\ cmd = "unstake_all"
    /\ pc = "submit"
    /\ \E outcome \in {Success, ChainFailure} :
           LET call == [call_function |-> IF args.unstake_all_alpha
                                          THEN "unstake_all_alpha"
                                          ELSE "unstake_all",
                        hotkey |-> args.hotkey_ss58_address]
           IN  /\ composed' = Append(composed, call)
               /\ submitted' = Append(submitted, call)
               /\ answers' = Append(answers, AnswerOf(outcome))
               /\ IF outcome = Success
                  THEN /\ printed' = printed \o
                              <<Msg("Successfully unstaked all", 1), Msg("Balance", 1)>> \o
                              (IF args.unstake_all_alpha
                               THEN <<Msg("Root Stake", 1)>> ELSE <<>>)
                       /\ requeried' = {1}
                       /\ result' = ReturnTrue
                  ELSE /\ printed' = Append(printed, FailureMsg(1, "error_message"))
                       /\ result' = ReturnFalse
                       /\ UNCHANGED requeried
    /\ pc' = "done"
    /\ UNCHANGED <<cmd, args, planVars, op_i, unlocked, calcVars, listVars, metaVars>>

(***************************************************************************)
(* subnets.py: register_subnetwork_extrinsic (lines 41-150).               *)
(***************************************************************************)
\* lc is what the runtime API answers for the registration cost; 0 stands for
\* every falsy answer
RegisterArgs ==
    [wait_for_inclusion : BOOLEAN,
     wait_for_finalization : BOOLEAN,
     prompt : BOOLEAN,
     your_balance : 0..MaxStake,
     lc : 0..MaxStake]

\* lock_cost, lines 521-538: a falsy answer gives None
LockCostFailed(lc) == lc = 0

\* burn_cost > your_balance with burn_cost = None ends in Balance's reflected
\* comparison, which is outside the three modules: it raises or gives a bool
NoneComparison == {RaiseTypeError, "True", "False"}

RegisterInit ==
    /\ cmd = "register_subnetwork_extrinsic"
    /\ pc = "start"
    /\ args \in RegisterArgs
    /\ stake_in_netuids = [hk \in Hotkeys |-> [n \in ChainNetuids |-> NoStake]]
    /\ hk_i = 1
    /\ nu_i = 1
    /\ unstake_operations = <<>>
    /\ CmdStart

\* lines 84-95, with lock_cost (521-538)
RegisterCheckBalance ==
    /\ cmd = "register_subnetwork_extrinsic"
    /\ pc = "start"
    /\ IF LockCostFailed(args.lc)
       THEN \E greater \in NoneComparison :
                IF greater = RaiseTypeError
                THEN /\ printed' = Append(printed,
                                          Msg("Failed to get subnet lock cost", 0))
                     /\ result' = RaiseTypeError
                     /\ pc' = "done"
                ELSE IF greater = "True"
                THEN /\ printed' = printed \o
                                   <<Msg("Failed to get subnet lock cost", 0),
                                     Msg("Your balance is not enough", 0)>>
                     /\ result' = ReturnFalse
                     /\ pc' = "done"
                ELSE /\ printed' = Append(printed,
                                          Msg("Failed to get subnet lock cost", 0))
                     /\ pc' = "confirm"
                     /\ UNCHANGED result
       ELSE IF args.lc > args.your_balance
       THEN /\ printed' = printed \o <<Msg("Subnet lock cost", 0),
                                       Msg("Your balance is not enough", 0)>>
            /\ result' = ReturnFalse
            /\ pc' = "done"
       ELSE /\ printed' = Append(printed, Msg("Subnet lock cost", 0))
            /\ pc' = "confirm"
            /\ UNCHANGED result
    /\ UNCHANGED <<cmd, args, planVars, chainVars, calcVars, listVars, metaVars>>

\* lines 97-102
RegisterConfirm ==
    /\ cmd = "register_subnetwork_extrinsic"
    /\ pc = "confirm"
    /\ \E answer \in (IF args.prompt THEN BOOLEAN ELSE {TRUE}) :
           IF answer
           THEN pc' = "unlock" /\ UNCHANGED result
           ELSE pc' = "done" /\ result' = ReturnFalse
    /\ printed' = IF args.prompt
                  THEN Append(printed, Msg("Your balance is", 0))
                  ELSE printed
    /\ UNCHANGED <<cmd, args, planVars, chainVars, calcVars, listVars, metaVars>>

\* lines 104-108
RegisterUnlock ==
    /\ cmd = "register_subnetwork_extrinsic"
    /\ pc = "unlock"
    /\ \E KeyFileError \in BOOLEAN :
           IF KeyFileError
           THEN /\ printed' = Append(printed, Msg("Error decrypting coldkey", 0))
                /\ unlocked' = "KeyFileError"
                /\ result' = ReturnFalse
                /\ pc' = "done"
           ELSE /\ unlocked' = "unlocked"
                /\ pc' = "submit"
                /\ UNCHANGED <<printed, result>>
    /\ UNCHANGED <<cmd, args, planVars, op_i, composed, submitted, answers, requeried,
                   calcVars, listVars, metaVars>>

\* mutant: the early return of a submission that waits for nothing is missing
RegisterSubmit_AlwaysChecks ==
    /\ cmd = "register_subnetwork_extrinsic"
    /\ pc = "submit"
    /\ \E outcome \in {Success, ChainFailure, RequestException} :
           LET call == [call_function |-> "register_network",
                        hotkey |-> "wallet.hotkey.ss58_address"]
           IN  /\ composed' = Append(composed, call)
               /\ submitted' = Append(submitted, call)
               /\ answers' = Append(answers, AnswerOf(outcome))
               /\ IF outcome \in Exceptions
                  THEN /\ result' = RaiseException
                       /\ UNCHANGED printed
                  ELSE IF outcome = ChainFailure
                  THEN /\ printed' = Append(printed,
                              [kind |-> "Failed", op |-> 1, about |-> <<>>,
                               error |-> "response.error_message"])
                       /\ result' = ReturnFalse
                  ELSE /\ printed' = Append(printed,
                              Msg("Registered subnetwork with netuid", 1))
                       /\ result' = ReturnTrue
    /\ pc' = "done"
    /\ UNCHANGED <<cmd, args, planVars, op_i, unlocked, requeried, calcVars, listVars, metaVars>>

\* lines 110-150: an exception of submit_extrinsic is not caught here
RegisterSubmit ==
    /\ cmd = "register_subnetwork_extrinsic"
    /\ pc = "submit"
    /\ \E outcome \in {Success, ChainFailure, RequestException} :
           LET call == [call_function |-> "register_network",
                        hotkey |-> "wallet.hotkey.ss58_address"]
           IN  /\ composed' = Append(composed, call)
               /\ submitted' = Append(submitted, call)
               /\ answers' = Append(answers, AnswerOf(outcome))
               /\ IF outcome \in Exceptions
                  THEN /\ result' = RaiseException
                       /\ UNCHANGED printed
                  ELSE IF ~args.wait_for_finalization /\ ~args.wait_for_inclusion
                  THEN /\ result' = ReturnTrue
                       /\ UNCHANGED printed
                  ELSE IF outcome = ChainFailure
                  THEN /\ printed' = Append(printed,
                              [kind |-> "Failed", op |-> 1, about |-> <<>>,
                               error |-> "response.error_message"])
                       /\ result' = ReturnFalse
                  ELSE /\ printed' = Append(printed,
                              Msg("Registered subnetwork with netuid", 1))
                       /\ result' = ReturnTrue
    /\ pc' = "done"
    /\ UNCHANGED <<cmd, args, planVars, op_i, unlocked, requeried, calcVars, listVars, metaVars>>

Init ==
    \/ UnstakeInit
    \/ UnstakeAllInit
    \/ RegisterInit

Next ==
    \/ PlanPair
    \/ PlanDone
    \/ UnstakeConfirm
    \/ UnstakeUnlock
    \/ SubmitOp
    \/ AwaitOp
    \/ UnstakeCompleted
    \/ UnstakeAllFetch
    \/ UnstakeAllConfirm
    \/ UnstakeAllUnlock
    \/ UnstakeAllSubmit
    \/ RegisterCheckBalance
    \/ RegisterConfirm
    \/ RegisterUnlock
    \/ RegisterSubmit

Spec == Init /\ [][Next]_vars

(***************************************************************************)
(* list.py: the live branch of stake_list, lines 459-558.  One hotkey is   *)
(* watched.  Every poll reads the chain head and the stake data again,     *)
(* renders create_live_table against the values of the poll before, and    *)
(* waits until the progress bar of refresh_interval seconds has finished.  *)
(* The chain reads are taken to answer; the block numbers of the header    *)
(* line and the emission column are left out.                              *)
(***************************************************************************)
MaxRefresh == 3
MaxElapsed == 2
refresh_interval == 10

LiveNetuids == {0, 1}
LiveStakeValues == {0, 20, 30, 31}
LiveSubstakes ==
    {<<StakeInfo(0, a), StakeInfo(1, b)>> : a \in LiveStakeValues, b \in LiveStakeValues}
LivePools ==
    {[n \in LiveNetuids |->
         IF n = 0 THEN ListPool(FALSE, 100, 100, 100) ELSE ListPool(TRUE, 100, a, 100)] :
        a \in {100, 200}}

\* None, as prev.get(key) gives it for a netuid without previous values
NoValue == <<>>
\* 10 ** (-precision): amounts are in units of 0.00001 TAO (precision 4),
\* the price is in TAO (precision 5)
AmountThreshold == FracOfInt(10)
PriceThreshold == Frac(1, 100000)
FracAbs(x) == <<Abs(x[1]), x[2]>>

Plain(value) == [value |-> value, change_text |-> "", change |-> NoValue]
Changed(value, change) ==
    [value |-> value,
     change_text |-> IF FracLess(FracZero, change) THEN "pale_green3 (+change)"
                                                   ELSE "hot_pink3 (change)",
     change |-> change]
NotApplicable == [value |-> NoValue, change_text |-> "N/A", change |-> NoValue]

\* mutant: a change of exactly the threshold is shown too
format_cell_AtThreshold(value, previous_value, threshold) ==
    IF previous_value # NoValue
    THEN IF FracLeq(threshold, FracAbs(FracSub(value, previous_value)))
         THEN Changed(value, FracSub(value, previous_value))
         ELSE Plain(value)
    ELSE Plain(value)

\* format_cell, lines 270-297: the digits of the formatted numbers are left out
format_cell(value, previous_value, threshold) ==
    IF previous_value # NoValue
    THEN IF FracLess(threshold, FracAbs(FracSub(value, previous_value)))
         THEN Changed(value, FracSub(value, previous_value))
         ELSE Plain(value)
    ELSE Plain(value)

\* current_data[netuid], lines 338-345
ValuesOf(cell) ==
    [stake |-> FracOfInt(cell.stake),
     price |-> cell.price,
     tao_value |-> cell.tao_value,
     swapped_value |-> cell.swapped_tao_value]

current_data(cells) ==
    [n \in {cells[i].netuid : i \in 1..Len(cells)} |->
        ValuesOf(cells[CHOOSE i \in 1..Len(cells) : cells[i].netuid = n])]

\* prev.get(key) with prev = previous_data.get(netuid, {}), line 348
PrevGet(previous, netuid, key) ==
    IF netuid \in DOMAIN previous THEN previous[netuid][key] ELSE NoValue

\* the cells of one row, lines 351-389
LiveRow(cell, previous) ==
    [netuid |-> cell.netuid,
     exchange_cell |-> format_cell(cell.tao_value,
                                   PrevGet(previous, cell.netuid, "tao_value"),
                                   AmountThreshold),
     stake_cell |-> format_cell(FracOfInt(cell.stake),
                                PrevGet(previous, cell.netuid, "stake"),
                                AmountThreshold),
     rate_cell |-> format_cell(cell.price,
                               PrevGet(previous, cell.netuid, "price"),
                               PriceThreshold),
     swap_cell |-> IF cell.netuid # 0
                   THEN format_cell(cell.swapped_tao_value,
                                    PrevGet(previous, cell.netuid, "swapped_value"),
                                    AmountThreshold)
                   ELSE NotApplicable]

\* create_live_table with its previous_data argument: the table and current_data
live_table(ss, info, previous) ==
    LET t == create_live_table(ss, info)
    IN  [table |-> [t EXCEPT !.rows =
                        [i \in 1..Len(t.cells) |-> LiveRow(t.cells[i], previous)]],
         current_data |-> current_data(t.cells)]

Min(a, b) == IF a < b THEN a ELSE b

\* the state at line 437: the first get_stake_data has answered.  previous_data
\* is None, which line 348 treats as the empty dict
LiveInit ==
    /\ pc = "start"
    /\ cmd = "stake_list"
    /\ live = TRUE
    /\ substakes \in LiveSubstakes
    /\ dynamic_info \in LivePools
    /\ dynamic_info_ = <<>>
    /\ previous_data = <<>>
    /\ table = None
    /\ refresh = 0
    /\ completed = 0
    /\ CalcIdle
    /\ CmdIdle
    /\ MetaIdle

\* lines 446-487: no non-zero substake ends the command, else the loop is entered
StakeListStart ==
    /\ pc = "start"
    /\ cmd = "stake_list"
    /\ live
    /\ IF \A i \in 1..Len(substakes) : substakes[i].stake = 0
       THEN /\ printed' = Append(printed, Msg("No stakes found", 0))
            /\ result' = RaiseExit
            /\ pc' = "done"
       ELSE /\ pc' = "poll"
            /\ UNCHANGED outVars
    /\ UNCHANGED <<cmd, args, planVars, chainVars, calcVars, listVars, metaVars>>

\* lines 505-547: one poll and its rendering
LivePoll ==
    /\ pc = "poll"
    /\ refresh < MaxRefresh
    /\ \E ss \in LiveSubstakes, info \in LivePools :
           /\ substakes' = ss
           /\ dynamic_info_' = info
           /\ table' = live_table(ss, dynamic_info, previous_data).table
           /\ previous_data' = live_table(ss, dynamic_info, previous_data).current_data
    /\ refresh' = refresh + 1
    /\ completed' = 0
    /\ pc' = "sleep"
    /\ UNCHANGED <<cmd, dynamic_info, live, calcVars, cmdVars, metaVars>>

\* mutant: the wait loop is left after its first pass
LiveSleep_OnePass ==
    /\ pc = "sleep"
    /\ \E elapsed \in 1..MaxElapsed :
           completed' = Min(completed + elapsed, refresh_interval)
    /\ pc' = "poll"
    /\ UNCHANGED <<cmd, substakes, dynamic_info, live, previous_data, table,
                   dynamic_info_, refresh, calcVars, cmdVars, metaVars>>

\* lines 549-554: one pass of the wait loop; the loop ends with the progress bar
LiveSleep ==
    /\ pc = "sleep"
    /\ \E elapsed \in 1..MaxElapsed :
           completed' = Min(completed + elapsed, refresh_interval)
    /\ pc' = IF completed' >= refresh_interval THEN "poll" ELSE "sleep"
    /\ UNCHANGED <<cmd, substakes, dynamic_info, live, previous_data, table,
                   dynamic_info_, refresh, calcVars, cmdVars, metaVars>>

\* lines 556-558: the interrupt is raised inside the try block
KeyboardInterrupt ==
    /\ pc \in {"poll", "sleep"}
    /\ printed' = Append(printed, Msg("Stopped live updates", 0))
    /\ result' = ReturnNone
    /\ pc' = "done"
    /\ UNCHANGED <<cmd, args, planVars, chainVars, calcVars, listVars, metaVars>>

LiveNext == StakeListStart \/ LivePoll \/ LiveSleep \/ KeyboardInterrupt

LiveSpec == LiveInit /\ [][LiveNext]_vars

\* the chain answers every read and every sleep returns; the interrupt may
\* never come
LiveFairSpec ==
    LiveSpec /\ WF_vars(StakeListStart) /\ WF_vars(LivePoll) /\ WF_vars(LiveSleep)

(***************************************************************************)
(* Claims about the commands.                                              *)
(***************************************************************************)
HasPrinted(m) == \E i \in 1..Len(printed) : printed[i] = m

PlannedFor(hk, netuid) ==
    {k \in 1..Len(unstake_operations) :
        /\ unstake_operations[k].hotkey_ss58 = hk
        /\ unstake_operations[k].netuid = netuid}

SubmittedFor(hk, netuid, amt) ==
    {k \in 1..Len(submitted) :
        /\ submitted[k].hotkey = hk
        /\ submitted[k].netuid = netuid
        /\ submitted[k].amount_unstaked = amt}

\* C1: in unstake with a requested amount, once planning is over, every pair
\* whose stake is positive and smaller than the amount has no planned
\* operation and a "Not enough stake to remove" message, and every pair whose
\* stake covers the amount has a planned operation for that amount, which has
\* been submitted when the command has run to its end.
C1_TooMuchSkipsOnlyThatPair ==
    (cmd = "unstake" /\ pc # "plan" /\ args.amount # 0) =>
        \A i \in 1..Len(args.hotkeys_to_unstake_from), j \in 1..Len(args.netuids) :
            LET hk == args.hotkeys_to_unstake_from[i]
                netuid == args.netuids[j]
                stake == stake_in_netuids[hk][netuid]
            IN  stake > 0 =>
                    IF args.amount > stake
                    THEN /\ PlannedFor(hk, netuid) = {}
                         /\ HasPrinted(PairMsg("Not enough stake to remove", hk, netuid))
                    ELSE /\ \E k \in PlannedFor(hk, netuid) :
                                unstake_operations[k].amount_to_unstake = args.amount
                         /\ result = ReturnNone =>
                                SubmittedFor(hk, netuid, args.amount) # {}

\* a finished run whose first pair asked for too much, and whose later pairs
\* were planned and submitted
C1_Witness ==
    /\ cmd = "unstake"
    /\ result = ReturnNone
    /\ args.amount # 0
    /\ printed[1].kind = "Not enough stake to remove"
    /\ Len(unstake_operations) >= 2
    /\ Len(submitted) = Len(unstake_operations)

\* C8: when unlocking the coldkey has raised KeyFileError, the command (unstake,
\* unstake_all or register_subnetwork_extrinsic) has printed the decryption
\* error and returned False, and it has composed and submitted no extrinsic.
C8_KeyFileErrorAborts ==
    unlocked = "KeyFileError" =>
        /\ cmd \in {"unstake", "unstake_all", "register_subnetwork_extrinsic"}
        /\ pc = "done"
        /\ result = ReturnFalse
        /\ HasPrinted(Msg("Error decrypting coldkey", 0))
        /\ composed = <<>>
        /\ submitted = <<>>

\* unstake with two planned operations, stopped by the key-file error
C8_Witness ==
    /\ cmd = "unstake"
    /\ unlocked = "KeyFileError"
    /\ Len(unstake_operations) >= 2
    /\ result = ReturnFalse

\* C9: in unstake, every submission that raised an exception has a failure
\* message for its operation, the exception has not left the command, and the
\* submission loop has moved past that operation.
C9_SubmissionExceptionsCaught ==
    cmd = "unstake" =>
        \A k \in 1..Len(answers) :
            answers[k] \in Exceptions \cup {"exception"} =>
                /\ \E i \in 1..Len(printed) :
                       /\ printed[i].op = k
                       /\ printed[i].kind \in {"Failed to unstake",
                                               "Price exceeded tolerance limit"}
                /\ result # RaiseException
                /\ op_i > k

\* C10: in unstake, the k-th submitted extrinsic is the k-th planned operation's
\* and there are no more submissions than operations (so none is submitted
\* twice), each answered but the one in flight; an operation the chain reported as failed has a failure message
\* carrying the chain's error, no success output, and no re-query of balance
\* and stake.
C10_ChainFailureNoRetry ==
    cmd = "unstake" =>
        /\ Len(submitted) = Len(answers) + (IF pc = "await" THEN 1 ELSE 0)
        /\ Len(submitted) <= Len(unstake_operations)
        /\ \A k \in 1..Len(submitted) :
               /\ submitted[k].hotkey = unstake_operations[k].hotkey_ss58
               /\ submitted[k].netuid = unstake_operations[k].netuid
               /\ submitted[k].amount_unstaked = unstake_operations[k].amount_to_unstake
        /\ \A k \in 1..Len(answers) :
               answers[k] = ChainFailure =>
                   /\ HasPrinted(FailureMsg(k, "response.error_message"))
                   /\ k \notin requeried
                   /\ \A i \in 1..Len(printed) :
                          printed[i].op = k =>
                              printed[i].kind \notin {"Finalized", "Balance", "Stake"}

\* a finished run in which the chain failed one operation and a later one
\* was still submitted
C10_Witness ==
    /\ cmd = "unstake"
    /\ result = ReturnNone
    /\ \E k \in 1..Len(answers) :
           /\ answers[k] = ChainFailure
           /\ k < Len(answers)

\* C11: in unstake, the extrinsic submitted for a planned operation is a
\* remove_stake_limit when safe staking is on and the netuid is not 0, with
\* the limit price planned for it (the pool's price in rao times one minus
\* the rate tolerance) and the allow-partial flag; otherwise it is a
\* remove_stake, which has no limit price.
C11_SafeModeUsesPriceLimit ==
    cmd = "unstake" =>
        \A k \in 1..Len(submitted) :
            LET op == unstake_operations[k]
                call == submitted[k]
            IN  IF args.safe_staking /\ op.netuid # 0
                THEN /\ call.call_function = "remove_stake_limit"
                     /\ call.limit_price = op.price_with_tolerance
                     /\ call.limit_price =
                            FracMul(rao(price(all_sn_dynamic_info[op.netuid])),
                                    FracSub(FracOfInt(1), args.rate_tolerance))
                     /\ call.allow_partial = args.allow_partial_stake
                ELSE /\ call.call_function = "remove_stake"
                     /\ "limit_price" \notin DOMAIN call

\* a safe run that submitted a root operation and a subnet operation, the
\* latter with the limit 2 TAO * 0.95 in rao
C11_Witness ==
    /\ cmd = "unstake"
    /\ args.safe_staking
    /\ \E k \in 1..Len(submitted) : submitted[k].netuid = 0
    /\ \E k \in 1..Len(submitted) :
           /\ submitted[k].netuid = 1
           /\ submitted[k].limit_price = <<1900000000, 1>>
           /\ submitted[k].allow_partial

PrintedFor(k) == {i \in 1..Len(printed) : printed[i].op = k}

\* C12: in unstake, a safe submission (safe staking on, netuid not 0) that
\* was rejected has exactly one message: the price-tolerance message when the
\* rejection was custom error 8, the failure message with the formatted error
\* for any other rejection; it has no success output and no re-query.
C12_SafeRejectionMessages ==
    cmd = "unstake" =>
        \A k \in 1..Len(answers) :
            (/\ args.safe_staking
             /\ unstake_operations[k].netuid # 0
             /\ answers[k] \in {CustomError8, RequestException, ChainFailure}) =>
                /\ \A i \in PrintedFor(k) :
                       printed[i] =
                           IF answers[k] = CustomError8
                           THEN Msg("Price exceeded tolerance limit", k)
                           ELSE IF answers[k] = RequestException
                           THEN FailureMsg(k, "format_error_message(e)")
                           ELSE FailureMsg(k, "response.error_message")
                /\ PrintedFor(k) # {}
                /\ \A i, j \in PrintedFor(k) : i = j
                /\ k \notin requeried

\* a finished safe run with one operation rejected by custom error 8 and
\* another by a different rejection
C12_Witness ==
    /\ cmd = "unstake"
    /\ args.safe_staking
    /\ result = ReturnNone
    /\ \E k \in 1..Len(answers) : answers[k] = CustomError8
    /\ \E k \in 1..Len(answers) : answers[k] = RequestException

QuitAt(i) == printed[i].kind = "Unstake all? [y/n/q]: q"

\* C13: in unstake, once 'q' has been answered at an amount prompt, nothing
\* further is printed about any (hotkey, netuid) pair (no prompt, no per-pair
\* error), the planning loops are over, the plan is exactly the amounts
\* entered at the prompts before the quit, and after planning either the
\* plan is empty, the command has reported that there is nothing to do,
\* returned False and submitted nothing, or the summary table has been printed
\* and a run that reaches its end has submitted every planned operation.
C13_QuitKeepsEarlierPlan ==
    cmd = "unstake" =>
        \A i \in 1..Len(printed) :
            QuitAt(i) =>
                /\ \A j \in (i + 1)..Len(printed) : printed[j].about = <<>>
                /\ pc = "plan" => hk_i > Len(args.hotkeys_to_unstake_from)
                /\ \A k \in 1..Len(unstake_operations) :
                       \E j \in 1..(i - 1) :
                           printed[j] = Asked(unstake_operations[k].hotkey_ss58,
                                              unstake_operations[k].netuid,
                                              unstake_operations[k].amount_to_unstake)
                /\ \A j \in 1..(i - 1) :
                       printed[j].kind = "Unstake all? [y/n/q]: amount" =>
                           PlannedFor(printed[j].about[1], printed[j].about[2]) # {}
                /\ pc # "plan" =>
                       IF unstake_operations = <<>>
                       THEN /\ result = ReturnFalse
                            /\ HasPrinted(Msg("No unstake operations to perform", 0))
                            /\ composed = <<>>
                            /\ submitted = <<>>
                            /\ unlocked = "locked"
                       ELSE /\ HasPrinted(Msg("table", 0))
                            /\ result = ReturnNone =>
                                   Len(submitted) = Len(unstake_operations)

\* a finished run: one amount entered, then 'q' with pairs left, and the one
\* planned operation submitted
C13_Witness ==
    /\ cmd = "unstake"
    /\ result = ReturnNone
    /\ Len(args.hotkeys_to_unstake_from) = 2
    /\ Len(args.netuids) = 2
    /\ printed[1].kind = "Unstake all? [y/n/q]: amount"
    /\ QuitAt(2)
    /\ stake_in_netuids["hk2"][1] > 0
    /\ Len(submitted) = 1

\* C14: a run of metagraph_cmd with reuse_last that met an absent or a
\* corrupted cache printed the retrieval error and returned: it raised
\* nothing and rendered no table.
C14_CacheErrorsHandled ==
    (last_run.ran /\ last_run.reuse_last /\ last_run.cache \in {"absent", "corrupted"}) =>
        /\ last_run.result = ReturnNone
        /\ last_run.printed = <<"Unable to retrieve table data">>
        /\ ~last_run.table.rendered

Stopped == Msg("Stopped live updates", 0)

CellKeys == {"exchange_cell", "stake_cell", "rate_cell", "swap_cell"}
ThresholdOf(key) == IF key = "rate_cell" THEN PriceThreshold ELSE AmountThreshold
RowsFor(t, netuid) == {j \in 1..Len(t.rows) : t.rows[j].netuid = netuid}

\* C16: in live mode a cell of refresh n >= 2 shows a delta exactly when the
\* netuid had a row at refresh n-1 and the value differs from the value of
\* that row by more than the cell's threshold (10^-4, for the rate 10^-5),
\* and the delta shown is the value minus that earlier value; the first
\* refresh, and a netuid without a row at refresh n-1, show no delta.
C16_DeltaAgainstPreviousRefresh ==
    [][refresh' = refresh + 1 =>
          \A i \in 1..Len(table'.rows) : \A key \in CellKeys :
              LET now == table'.rows[i]
                  before == IF refresh = 0 THEN {} ELSE RowsFor(table, now.netuid)
              IN  ~(now.netuid = 0 /\ key = "swap_cell") =>
                      IF before = {}
                      THEN now[key].change_text = ""
                      ELSE LET old == table.rows[CHOOSE j \in before : TRUE][key].value
                               diff == FracSub(now[key].value, old)
                           IN  /\ (now[key].change_text # "") =
                                      FracLess(ThresholdOf(key), FracAbs(diff))
                               /\ now[key].change_text # "" => now[key].change = diff
                               /\ now[key].change_text = "pale_green3 (+change)" =>
                                      FracLess(FracZero, diff)]_vars

C16_Witness ==
    /\ cmd = "stake_list" /\ live
    /\ refresh >= 2
    /\ \E i \in 1..Len(table.rows) :
           /\ table.rows[i].stake_cell.change = FracOfInt(11)
           /\ table.rows[i].exchange_cell.change_text = ""
           /\ table.rows[i].exchange_cell.value = Frac(31, 2)
    /\ \E i \in 1..Len(table.rows) :
           /\ table.rows[i].stake_cell.value = FracOfInt(30)
           /\ table.rows[i].stake_cell.change_text = ""
           /\ previous_data[table.rows[i].netuid].stake = FracOfInt(30)

Registered == cmd = "register_subnetwork_extrinsic" /\ pc = "done"
WaitsForNothing == ~args.wait_for_finalization /\ ~args.wait_for_inclusion
\* the confirmation was asked and no unlock followed it
RegistrationDeclined ==
    /\ HasPrinted(Msg("Your balance is", 0))
    /\ unlocked = "locked"

\* C17: register_subnetwork_extrinsic returns True exactly when submit_extrinsic
\* returned a response for the register_network extrinsic and either neither
\* wait flag was set or the response is a success; with a balance below the
\* lock cost, or a declined confirmation, it returns False and nothing was
\* composed or submitted; with a wait flag and a failed response it returns
\* False.
C17_RegisterReturnValue ==
    Registered =>
        /\ (result = ReturnTrue) <=>
               /\ Len(submitted) = 1
               /\ submitted[1].call_function = "register_network"
               /\ answers[1] # "exception"
               /\ WaitsForNothing \/ answers[1] = Success
        /\ (~LockCostFailed(args.lc) /\ args.lc > args.your_balance) =>
               result = ReturnFalse /\ composed = <<>> /\ submitted = <<>>
        /\ RegistrationDeclined =>
               result = ReturnFalse /\ composed = <<>> /\ submitted = <<>>
        /\ (answers = <<ChainFailure>> /\ ~WaitsForNothing) => result = ReturnFalse

C17_Witness ==
    /\ Registered
    /\ result = ReturnTrue
    /\ WaitsForNothing
    /\ answers = <<ChainFailure>>

InFlight == Len(submitted) - Len(answers)

\* C18: in unstake the planned extrinsics are submitted one at a time in plan
\* order: a submission begins only when every earlier one has been answered
\* (success, chain failure or a reported error) and the command is still
\* running, so at most one extrinsic is in flight, and once the command has
\* ended none is in flight and none is submitted any more.
C18_OneSubmissionAtATime ==
    /\ [](cmd = "unstake" =>
              /\ InFlight \in {0, 1}
              /\ (InFlight = 1) <=> (pc = "await")
              /\ \A k \in 1..Len(submitted) :
                     /\ submitted[k].hotkey = unstake_operations[k].hotkey_ss58
                     /\ submitted[k].netuid = unstake_operations[k].netuid)
    /\ [][cmd = "unstake" =>
              /\ submitted' # submitted =>
                     /\ InFlight = 0
                     /\ Len(submitted') = Len(submitted) + 1
                     /\ result = Running
              /\ result # Running => submitted' = submitted]_vars

C18_Witness ==
    /\ cmd = "unstake"
    /\ pc = "await"
    /\ Len(submitted) = 2
    /\ answers \in {<<ChainFailure>>, <<"exception">>}

\* C19: in unstake, an unlock is attempted only after the summary table was
\* printed and, when prompt is set, the user confirmed; an extrinsic is
\* composed or submitted only with the coldkey unlocked; with an empty plan
\* or a declined confirmation the coldkey is never touched and nothing is
\* composed or submitted.
C19_NothingBeforeTableConfirmUnlock ==
    cmd = "unstake" =>
        /\ unlocked # "locked" =>
               /\ HasPrinted(Msg("table", 0))
               /\ args.prompt => HasPrinted(Confirmed(TRUE))
        /\ (composed # <<>> \/ submitted # <<>>) => unlocked = "unlocked"
        /\ (unstake_operations = <<>> \/ HasPrinted(Confirmed(FALSE))) =>
               /\ unlocked = "locked"
               /\ composed = <<>>
               /\ submitted = <<>>
        /\ (pc = "done" /\ unstake_operations = <<>>) => result = ReturnFalse
        /\ HasPrinted(Confirmed(FALSE)) => result = RaiseExit

C19_Witness ==
    /\ cmd = "unstake"
    /\ args.prompt
    /\ HasPrinted(Confirmed(TRUE))
    /\ unlocked = "unlocked"
    /\ submitted # <<>>

\* C20: every operation of the unstake plan is for a (hotkey, netuid) whose
\* stake in the snapshot taken at the chain head is present and not zero, it
\* carries that stake as its current stake, and its amount is not greater
\* than that stake; a pair without a stake record or with zero stake has no
\* operation in the plan.
C20_PlanWithinSnapshot ==
    cmd = "unstake" =>
        /\ \A k \in 1..Len(unstake_operations) :
               LET op == unstake_operations[k]
                   stake == stake_in_netuids[op.hotkey_ss58][op.netuid]
               IN  /\ stake # NoStake
                   /\ stake # 0
                   /\ op.current_stake_balance = stake
                   /\ op.amount_to_unstake <= stake
        /\ \A hk \in Hotkeys, n \in ChainNetuids :
               stake_in_netuids[hk][n] \in {NoStake, 0} => PlannedFor(hk, n) = {}

\* a finished plan with an operation for the whole stake of its pair, next to
\* a requested pair with zero stake and one without a stake record
C20_Witness ==
    /\ cmd = "unstake"
    /\ pc = "confirm"
    /\ \E k \in 1..Len(unstake_operations) :
           /\ unstake_operations[k].amount_to_unstake = MaxStake
           /\ unstake_operations[k].current_stake_balance = MaxStake
    /\ \E hk \in Hotkeys, n \in ChainNetuids :
           /\ stake_in_netuids[hk][n] = 0
           /\ HasPrinted(PairMsg("No stake to unstake", hk, n))
    /\ \E hk \in Hotkeys, n \in ChainNetuids :
           /\ stake_in_netuids[hk][n] = NoStake
           /\ HasPrinted(PairMsg("No stake to unstake", hk, n))

(***************************************************************************)
(* remove.py: the helper functions of unstake, each run on its own.  Here  *)
(* result is a record: how the function ended and, when it returned a      *)
(* value, that value.                                                      *)
(***************************************************************************)
NotReturned == [kind |-> "running", value |-> <<>>]
Returned(v) == [kind |-> "return", value |-> v]

\* everything of a command run that a helper function does not touch
HelperIdle ==
    /\ stake_in_netuids = <<>>
    /\ hk_i = 0
    /\ nu_i = 0
    /\ unstake_operations = <<>>
    /\ op_i = 0
    /\ unlocked = "locked"
    /\ composed = <<>>
    /\ submitted = <<>>
    /\ answers = <<>>
    /\ requeried = {}
    /\ printed = <<>>
    /\ result = NotReturned
    /\ CalcIdle
    /\ ListIdle
    /\ MetaIdle

(***************************************************************************)
(* _get_hotkeys_to_unstake (lines 980-1032).  The wallet has the hotkeys   *)
(* WalletHotkeys, in the order get_hotkey_wallets_for_wallet lists them,   *)
(* and is configured with the first; an identifier is a hotkey name or an  *)
(* ss58 address.                                                           *)
(***************************************************************************)
WalletHotkeys == <<"hk1", "hk2">>
Ss58Addresses == {"5hk1", "5hk2", "5other"}
is_valid_ss58_address(identifier) == identifier \in Ss58Addresses
\* wallet.hotkey.ss58_address of the hotkey with this name
AddressOf(name) == IF name = "hk1" THEN "5hk1" ELSE "5hk2"
Identifiers == {"hk2", "5other"}
IdentifierLists ==
    {<<>>} \cup {<<a>> : a \in Identifiers} \cup
    {<<a, b>> : a \in Identifiers, b \in Identifiers}
NameLists == {<<>>, <<"hk1">>, <<"hk2">>, <<"hk2", "hk1">>}
InList(x, list) == \E i \in 1..Len(list) : list[i] = x

GetHotkeysArgs ==
    [hotkey_ss58_address : {"", "5other"},
     all_hotkeys : BOOLEAN,
     include_hotkeys : IdentifierLists,
     exclude_hotkeys : NameLists]

NotExcluded(a) ==
    LET Keep(name) == ~InList(name, a.exclude_hotkeys)
    IN  SelectSeq(WalletHotkeys, Keep)
Named(names) == [i \in 1..Len(names) |-> <<names[i], AddressOf(names[i])>>]
Included(identifiers) ==
    [i \in 1..Len(identifiers) |->
        IF is_valid_ss58_address(identifiers[i])
        THEN <<None, identifiers[i]>>
        ELSE <<identifiers[i], AddressOf(identifiers[i])>>]

\* mutant: the exclude list is applied to the include list too
_get_hotkeys_to_unstake_ExcludeAlways(a) ==
    IF a.hotkey_ss58_address # ""
    THEN << <<None, a.hotkey_ss58_address>> >>
    ELSE IF a.all_hotkeys
    THEN Named(NotExcluded(a))
    ELSE IF a.include_hotkeys # <<>>
    THEN LET Keep(pair) == ~InList(pair[1], a.exclude_hotkeys)
         IN  SelectSeq(Included(a.include_hotkeys), Keep)
    ELSE Named(<<WalletHotkeys[1]>>)

_get_hotkeys_to_unstake(a) ==
    IF a.hotkey_ss58_address # ""
    THEN << <<None, a.hotkey_ss58_address>> >>
    ELSE IF a.all_hotkeys
    THEN Named(NotExcluded(a))
    ELSE IF a.include_hotkeys # <<>>
    THEN Included(a.include_hotkeys)
    ELSE Named(<<WalletHotkeys[1]>>)

GetHotkeysInit ==
    /\ cmd = "_get_hotkeys_to_unstake"
    /\ pc = "start"
    /\ args \in GetHotkeysArgs
    /\ HelperIdle

GetHotkeys ==
    /\ cmd = "_get_hotkeys_to_unstake"
    /\ pc = "start"
    /\ result' = Returned(_get_hotkeys_to_unstake(args))
    /\ pc' = "done"
    /\ UNCHANGED <<cmd, args, planVars, chainVars, printed, calcVars, listVars, metaVars>>

(***************************************************************************)
(* _ask_unstake_amount (lines 897-977).  Amounts are in rao; what the user *)
(* types is a number of half rao, so that an input can fall between two    *)
(* values of Balance.  Balance lives outside the three modules: from_tao   *)
(* is modelled from the specification's "fixed-point amount" as the        *)
(* conversion that drops what is below the base unit.                      *)
(***************************************************************************)
MaxPrompts == 3
AllResponses == {"y", "n", "q", "other"}
TypedNumbers == (0 - 1)..(2 * MaxStake + 2)
from_tao(halves) == halves \div 2

Answered(prompt, typed, number) ==
    [kind |-> prompt, op |-> number, about |-> <<typed>>, error |-> ""]

AskInit ==
    /\ cmd = "_ask_unstake_amount"
    /\ pc = "unstake_all_prompt"
    /\ args \in [current_stake_balance : 1..MaxStake]
    /\ HelperIdle

\* lines 928-942: the first prompt
AskUnstakeAll ==
    /\ cmd = "_ask_unstake_amount"
    /\ pc = "unstake_all_prompt"
    /\ Len(printed) < MaxPrompts
    /\ \E response \in AllResponses :
           /\ printed' = Append(printed, Answered("Unstake all? [y/n/q]", response, 0))
           /\ IF response = "q"
              THEN result' = [kind |-> ReturnNone, value |-> 0] /\ pc' = "done"
              ELSE IF response = "y"
              THEN result' = Returned(args.current_stake_balance) /\ pc' = "done"
              ELSE IF response # "n"
              THEN UNCHANGED <<result, pc>>
              ELSE pc' = "amount_prompt" /\ UNCHANGED result
    /\ UNCHANGED <<cmd, args, planVars, chainVars, calcVars, listVars, metaVars>>

\* lines 950-977: the amount prompt
AskAmount ==
    /\ cmd = "_ask_unstake_amount"
    /\ pc = "amount_prompt"
    /\ Len(printed) < MaxPrompts
    /\ \/ /\ printed' = Append(printed, Answered("Enter amount to unstake", "q", 0))
          /\ result' = [kind |-> ReturnNone, value |-> 0]
          /\ pc' = "done"
       \/ /\ printed' = Append(printed, Answered("Enter amount to unstake", "ValueError", 0))
          /\ UNCHANGED <<result, pc>>
       \/ \E amount_value \in TypedNumbers :
              /\ printed' = Append(printed,
                     Answered("Enter amount to unstake", "float", amount_value))
              /\ IF amount_value <= 0
                 THEN UNCHANGED <<result, pc>>
                 ELSE IF from_tao(amount_value) > args.current_stake_balance
                 THEN UNCHANGED <<result, pc>>
                 ELSE result' = Returned(from_tao(amount_value)) /\ pc' = "done"
    /\ UNCHANGED <<cmd, args, planVars, chainVars, calcVars, listVars, metaVars>>

HelperInit == GetHotkeysInit \/ AskInit
HelperNext == GetHotkeys \/ AskUnstakeAll \/ AskAmount
HelperSpec == HelperInit /\ [][HelperNext]_vars

GotHotkeys == cmd = "_get_hotkeys_to_unstake" /\ pc = "done"
Addresses(pairs) == [i \in 1..Len(pairs) |-> pairs[i][2]]

\* C21: _get_hotkeys_to_unstake takes its hotkeys from one source: the ss58
\* address when given, whatever the other arguments; else, in all-hotkeys
\* mode, the wallet's hotkeys without the excluded names, whatever the
\* include list; else one entry per identifier of the include list, in
\* order; else the wallet's configured hotkey.  Outside all-hotkeys mode the
\* exclude list changes nothing.
C21_OneSourceOfHotkeys ==
    GotHotkeys =>
        LET got == result.value
        IN  /\ args.hotkey_ss58_address # "" =>
                   got = << <<None, args.hotkey_ss58_address>> >>
            /\ (args.hotkey_ss58_address = "" /\ args.all_hotkeys) =>
                   /\ \A i \in 1..Len(WalletHotkeys) :
                          InList(WalletHotkeys[i], [j \in 1..Len(got) |-> got[j][1]])
                              <=> ~InList(WalletHotkeys[i], args.exclude_hotkeys)
                   /\ \A j \in 1..Len(got) :
                          /\ InList(got[j][1], WalletHotkeys)
                          /\ got[j][2] = AddressOf(got[j][1])
                   /\ got = _get_hotkeys_to_unstake([args EXCEPT !.include_hotkeys = <<>>])
            /\ (args.hotkey_ss58_address = "" /\ ~args.all_hotkeys
                    /\ args.include_hotkeys # <<>>) =>
                   /\ Len(got) = Len(args.include_hotkeys)
                   /\ \A i \in 1..Len(got) :
                          args.include_hotkeys[i] \in {got[i][1], got[i][2]}
            /\ (args.hotkey_ss58_address = "" /\ ~args.all_hotkeys
                    /\ args.include_hotkeys = <<>>) =>
                   got = << <<WalletHotkeys[1], AddressOf(WalletHotkeys[1])>> >>
            /\ (args.hotkey_ss58_address # "" \/ ~args.all_hotkeys) =>
                   got = _get_hotkeys_to_unstake([args EXCEPT !.exclude_hotkeys = <<>>])

C21_Witness ==
    /\ GotHotkeys
    /\ args.hotkey_ss58_address = ""
    /\ ~args.all_hotkeys
    /\ args.include_hotkeys = <<"hk2", "5other">>
    /\ args.exclude_hotkeys = <<"hk2">>
    /\ result.value = << <<"hk2", "5hk2">>, <<None, "5other">> >>

Asked_q == \E i \in 1..Len(printed) : printed[i].about = <<"q">>

\* C22: _ask_unstake_amount returns None only after a 'q' was entered, and
\* otherwise an amount a with 0 < a <= current stake.
C22_AskReturnsPositiveAmount ==
    (cmd = "_ask_unstake_amount" /\ pc = "done") =>
        /\ result.kind = ReturnNone => Asked_q
        /\ result.kind = "return" =>
               /\ 0 < result.value
               /\ result.value <= args.current_stake_balance

\* the netuids on which the snapshot has a stake record of the target hotkey,
\* netuid 0 left out when only alpha is unstaked
Remaining ==
    {n \in ChainNetuids :
        /\ stake_in_netuids[args.hotkey_ss58_address][n] # NoStake
        /\ args.unstake_all_alpha => n # 0}
TablesPrinted == {i \in 1..Len(printed) : printed[i].kind = "table"}

NetuidNone == 0 - 1

\* the stakes _unstake_selection is given: a StakeInfo may hold a zero stake
SelectionSnapshots ==
    {snap \in [Hotkeys -> [ChainNetuids -> {NoStake, 0, MaxStake}]] :
        \A n \in ChainNetuids : snap["hk2"][n] \in {NoStake, MaxStake}}

\* the stakes at the chain head read after the selection: the same, or the
\* first hotkey's stake on netuid 1 has gone meanwhile
LaterSnapshots(snap) ==
    {snap} \cup {[snap EXCEPT !["hk1"][1] = 0] : x \in {y \in {1} : snap["hk1"][1] # NoStake}}

InteractiveArgs ==
    [interactive : {TRUE},
     netuid : ChainNetuids \cup {NetuidNone},
     amount : {0, 1},
     prompt : BOOLEAN,
     safe_staking : {FALSE},
     rate_tolerance : RateTolerances,
     allow_partial_stake : {FALSE},
     stake_infos : SelectionSnapshots,
     selected_hotkey_ss58 : {""},
     hotkeys_to_unstake_from : {<<>>},
     netuids : {<<>>}]

\* mutant: a StakeInfo with a zero stake is kept
hotkey_stakes_WithZero(stake_infos, netuid, hotkey_ss58) ==
    {n \in ChainNetuids :
        /\ netuid # NetuidNone => n = netuid
        /\ stake_infos[hotkey_ss58][n] # NoStake}

\* lines 755-763: hotkey_stakes[hotkey_ss58], the netuids on which the hotkey
\* has a stake above zero, within the netuid filter
hotkey_stakes(stake_infos, netuid, hotkey_ss58) ==
    {n \in ChainNetuids :
        /\ netuid # NetuidNone => n = netuid
        /\ stake_infos[hotkey_ss58][n] # NoStake
        /\ stake_infos[hotkey_ss58][n] > 0}

\* the keys of hotkey_stakes: the hotkeys offered at the index prompt
hotkey_options(stake_infos, netuid) ==
    {hk \in Hotkeys : hotkey_stakes(stake_infos, netuid, hk) # {}}

\* line 750: the chain returned no StakeInfo at all
NoStakeInfos(stake_infos) ==
    \A hk \in Hotkeys, n \in ChainNetuids : stake_infos[hk][n] = NoStake

\* what is typed at the netuid prompt: 'all', a comma-separated list of
\* numbers, or something int() rejects
NetuidInputs ==
    {[kind |-> "all", list |-> <<>>], [kind |-> "ValueError", list |-> <<>>]} \cup
    {[kind |-> "list", list |-> l] : l \in {<<0>>, <<1>>, <<0, 1>>, <<1, 1>>, <<1, 2>>}}

NetuidPrompt(input) ==
    [kind |-> "Enter the netuids", op |-> 0, about |-> input, error |-> ""]

InteractiveInit ==
    /\ cmd = "unstake"
    /\ pc = "select"
    /\ args \in InteractiveArgs
    /\ stake_in_netuids \in LaterSnapshots(args.stake_infos)
    /\ hk_i = 1
    /\ nu_i = 1
    /\ unstake_operations = <<>>
    /\ CmdStart

\* _unstake_selection, lines 746-827: the stakes, the table of hotkeys and
\* the index prompt
SelectHotkey ==
    /\ cmd = "unstake"
    /\ pc = "select"
    /\ IF NoStakeInfos(args.stake_infos) \/ hotkey_options(args.stake_infos, args.netuid) = {}
       THEN /\ printed' = Append(printed, Msg("You have no stakes to unstake", 0))
            /\ result' = RaiseExit
            /\ pc' = "done"
            /\ UNCHANGED args
       ELSE \E hk \in hotkey_options(args.stake_infos, args.netuid) :
                /\ args' = [args EXCEPT !.selected_hotkey_ss58 = hk]
                /\ printed' = Append(printed,
                       [kind |-> "Enter the index of the hotkey", op |-> 0,
                        about |-> hk, error |-> ""])
                /\ pc' = "netuids"
                /\ UNCHANGED result
    /\ UNCHANGED <<cmd, planVars, chainVars, calcVars, listVars, metaVars>>

\* lines 78-85 of unstake: the selection is taken over for planning; out is
\* what has been printed so far
TakeSelection(selected_netuids, out) ==
    IF selected_netuids = <<>>
    THEN /\ printed' = Append(out, Msg("No unstake operations to perform", 0))
         /\ result' = ReturnFalse
         /\ pc' = "done"
         /\ UNCHANGED <<cmd, args>>
    ELSE /\ args' = [args EXCEPT !.hotkeys_to_unstake_from = <<args.selected_hotkey_ss58>>,
                                 !.netuids = selected_netuids]
         /\ printed' = out
         /\ pc' = "plan"
         /\ UNCHANGED <<cmd, result>>

\* _unstake_selection, lines 858-894, one pass of the netuid prompt, and what
\* unstake does with the selection it returns (lines 68-85)
SelectNetuids ==
    /\ cmd = "unstake"
    /\ pc = "netuids"
    /\ LET netuid_stakes == hotkey_stakes(args.stake_infos, args.netuid,
                                          args.selected_hotkey_ss58)
       IN  IF args.netuid # NetuidNone
           THEN TakeSelection(<<args.netuid>>, printed)
           ELSE \E input \in NetuidInputs :
                    IF input.kind = "all"
                    THEN \E unstake_all_alpha \in BOOLEAN :
                             /\ cmd' = "unstake_all"
                             /\ args' = [hotkey_ss58_address |-> args.selected_hotkey_ss58,
                                         unstake_all_alpha |-> unstake_all_alpha,
                                         prompt |-> args.prompt]
                             /\ pc' = "start"
                             /\ printed' = Append(printed, NetuidPrompt(input))
                             /\ UNCHANGED result
                    ELSE IF input.kind = "ValueError"
                    THEN /\ Len(printed) < MaxPrompts
                         /\ printed' = printed \o
                                <<NetuidPrompt(input), Msg("Please enter valid netuids", 0)>>
                         /\ UNCHANGED <<cmd, args, pc, result>>
                    ELSE IF \E k \in 1..Len(input.list) : input.list[k] \notin netuid_stakes
                    THEN /\ Len(printed) < MaxPrompts
                         /\ printed' = printed \o
                                <<NetuidPrompt(input),
                                  Msg("The following netuids are invalid or not available", 0)>>
                         /\ UNCHANGED <<cmd, args, pc, result>>
                    ELSE TakeSelection(input.list, Append(printed, NetuidPrompt(input)))
    /\ UNCHANGED <<planVars, chainVars, calcVars, listVars, metaVars>>

InteractiveNext ==
    \/ SelectHotkey
    \/ SelectNetuids
    \/ PlanPair
    \/ PlanDone
    \/ UnstakeConfirm
    \/ UnstakeUnlock
    \/ SubmitOp
    \/ AwaitOp
    \/ UnstakeCompleted
    \/ UnstakeAllFetch
    \/ UnstakeAllConfirm
    \/ UnstakeAllUnlock
    \/ UnstakeAllSubmit

InteractiveSpec == InteractiveInit /\ [][InteractiveNext]_vars

\* the netuid prompt was answered with 'all'
AnsweredAll ==
    \E i \in 1..Len(printed) :
        printed[i].kind = "Enter the netuids" /\ printed[i].about.kind = "all"

\* the hotkey picked at the index prompt
PickedHotkey ==
    {printed[i].about : i \in {j \in 1..Len(printed) :
                                  printed[j].kind = "Enter the index of the hotkey"}}

PerPosition == {"remove_stake", "remove_stake_limit"}

\* C24: in interactive mode an 'all' at the netuid prompt makes the run one
\* of unstake_all for the selected hotkey, whose result is the result of the
\* run, with no per-position operation planned, composed or submitted; a
\* selection that unstake goes on to plan (a netuid filter or an explicit
\* list) names only netuids on which the selected hotkey has a stake above
\* zero in the stakes the selection read
C24_InteractiveSelection ==
    /\ AnsweredAll =>
           /\ cmd = "unstake_all"
           /\ PickedHotkey = {args.hotkey_ss58_address}
           /\ unstake_operations = <<>>
           /\ \A k \in 1..Len(composed) : composed[k].call_function \notin PerPosition
           /\ \A k \in 1..Len(submitted) : submitted[k].call_function \notin PerPosition
           /\ pc = "done" => ((result = ReturnTrue) <=> (answers = <<Success>>))
    /\ cmd = "unstake_all" => AnsweredAll
    /\ (cmd = "unstake" /\ args.hotkeys_to_unstake_from # <<>>) =>
           /\ PickedHotkey = {args.selected_hotkey_ss58}
           /\ args.hotkeys_to_unstake_from = <<args.selected_hotkey_ss58>>
           /\ args.netuid # NetuidNone => args.netuids = <<args.netuid>>
           /\ \A j \in 1..Len(args.netuids) :
                  /\ args.netuids[j] \in ChainNetuids
                  /\ args.stake_infos[args.selected_hotkey_ss58][args.netuids[j]] > 0

C24_Witness ==
    /\ AnsweredAll
    /\ cmd = "unstake_all"
    /\ pc = "done"
    /\ result = ReturnTrue
    /\ Len(submitted) = 1
    /\ submitted[1].hotkey = "hk2"

\* C25: in the rows of a hotkey's table, static or live, no root row comes
\* after a row of another subnet, and of two rows of other subnets the later
\* one has no greater no-slippage TAO value (stake times price) than the
\* earlier one
C25_RootFirstThenByValue ==
    Rendered =>
        \A i, j \in 1..Len(table.rows) :
            i < j =>
                /\ table.rows[j].netuid = 0 => table.rows[i].netuid = 0
                /\ (table.rows[i].netuid # 0 /\ table.rows[j].netuid # 0) =>
                       FracLeq(FracMulInt(table.rows[j].price, table.rows[j].stake),
                               FracMulInt(table.rows[i].price, table.rows[i].stake))

C25_Witness ==
    /\ Rendered
    /\ Len(substakes) = 3
    /\ Len(table.rows) = 3
    /\ substakes[3].netuid = 0
    /\ FracLess(alpha_to_tao(dynamic_info[substakes[1].netuid], substakes[1].stake),
                alpha_to_tao(dynamic_info[substakes[2].netuid], substakes[2].stake))
    /\ table.rows[1].netuid = 0
    /\ table.rows[2].netuid = substakes[2].netuid
    /\ table.rows[3].netuid = substakes[1].netuid

\* the stake the last poll fetched on a netuid
FetchedStake(netuid) ==
    substakes[CHOOSE i \in 1..Len(substakes) : substakes[i].netuid = netuid].stake

\* C26: after every refresh of the live view, each row shows the stake that
\* refresh fetched, and the price, the TAO value and the swap value computed
\* from the pool that same refresh fetched
C26_RendersFetchedData ==
    (cmd = "stake_list" /\ live /\ refresh > 0) =>
        \A i \in 1..Len(table.rows) :
            LET shown == table.rows[i]
                pool == dynamic_info_[shown.netuid]
                stake == FetchedStake(shown.netuid)
            IN  /\ shown.stake_cell.value = FracOfInt(stake)
                /\ FracEq(shown.rate_cell.value, price(pool))
                /\ FracLeq(shown.exchange_cell.value, alpha_to_tao(pool, stake))
                /\ FracLeq(alpha_to_tao(pool, stake), shown.exchange_cell.value)
                /\ shown.netuid # 0 =>
                       /\ FracLeq(shown.swap_cell.value,
                                  alpha_to_tao_with_slippage(pool, stake).tao_returned)
                       /\ FracLeq(alpha_to_tao_with_slippage(pool, stake).tao_returned,
                                  shown.swap_cell.value)

(***************************************************************************)
(* subnets.py: subnets_list (lines 152-252).  Emissions are in units of    *)
(* 0.00001 TAO.  The chain lists the subnets by netuid, root first.  The   *)
(* key of the sort is the third column of a row, the text                  *)
(* f"τ {emission_tao:.4f}": a text is the sequence of its characters       *)
(* after the common prefix, a digit as its value and '.' as Dot, which     *)
(* like '.' sorts below every digit.  Values whose fifth decimal is 5 are  *)
(* left out: how they round depends on the binary float.                   *)
(***************************************************************************)
Dot == 0 - 1
EmissionValues == {0, 1, 4, 90000, 900000, 1000000}
MaxSubnets == 3

RECURSIVE Digits(_)
Digits(n) ==
    IF n < 10 THEN <<n>> ELSE Append(Digits(n \div 10), n % 10)

\* f"{emission_tao:.4f}": rounded to four decimals
FourDecimals(v) ==
    LET t == (v + 5) \div 10
    IN  Digits(t \div 10000) \o
        <<Dot, (t \div 1000) % 10, (t \div 100) % 10, (t \div 10) % 10, t % 10>>

\* a < b for str
RECURSIVE StrLess(_, _)
StrLess(a, b) ==
    IF b = <<>> THEN FALSE
    ELSE IF a = <<>> THEN TRUE
    ELSE IF Head(a) # Head(b) THEN Head(a) < Head(b)
    ELSE StrLess(Tail(a), Tail(b))

\* lines 168-190: the row of a subnet; root is listed with emission 0.0
SubnetRow(subnet) ==
    LET emission_tao == IF subnet.netuid = 0 THEN 0 ELSE subnet.emission
    IN  [netuid |-> subnet.netuid,
         emission_tao |-> emission_tao,
         emission_cell |-> FourDecimals(emission_tao)]

\* x goes in front of the first row whose key is not greater than its own
RECURSIVE InsertRow(_, _)
InsertRow(x, sorted) ==
    IF sorted = <<>>
    THEN <<x>>
    ELSE IF ~StrLess(x.emission_cell, Head(sorted).emission_cell)
         THEN <<x>> \o sorted
         ELSE <<Head(sorted)>> \o InsertRow(x, Tail(sorted))

\* sorted(rows, key=lambda x: x[2], reverse=True): stable, descending
RECURSIVE SortRows(_)
SortRows(rows) ==
    IF rows = <<>> THEN <<>> ELSE InsertRow(Head(rows), SortRows(Tail(rows)))

\* line 244
sorted_rows(rows) ==
    <<rows[1]>> \o SortRows(Tail(rows))

SubnetLists ==
    UNION {{[i \in 1..n |-> [netuid |-> i - 1, emission |-> e[i]]] :
               e \in [1..n -> EmissionValues]} : n \in 1..(MaxSubnets + 1)}

SubnetsListInit ==
    /\ cmd = "subnets_list"
    /\ pc = "start"
    /\ args \in [subnets : SubnetLists]
    /\ HelperIdle

\* lines 163-248: the rows, sorted, are printed as the table
SubnetsList ==
    /\ cmd = "subnets_list"
    /\ pc = "start"
    /\ printed' = <<[kind |-> "table", op |-> 0,
                     about |-> sorted_rows([i \in 1..Len(args.subnets) |->
                                                SubnetRow(args.subnets[i])]),
                     error |-> ""]>>
    /\ result' = Returned(<<>>)
    /\ pc' = "done"
    /\ UNCHANGED <<cmd, args, planVars, chainVars, calcVars, listVars, metaVars>>

SubnetsListSpec == SubnetsListInit /\ [][SubnetsList]_vars

\* C27: the table of subnets_list has the first fetched subnet in its first
\* row, and of two later rows the lower one has no greater emission in TAO
\* than the upper one
C27_FirstKeptOthersByEmission ==
    (cmd = "subnets_list" /\ pc = "done") =>
        LET listed == printed[1].about
        IN  /\ Len(listed) = Len(args.subnets)
            /\ listed[1].netuid = args.subnets[1].netuid
            /\ \A i, j \in 2..Len(listed) :
                   i < j => listed[j].emission_tao <= listed[i].emission_tao

\* the keys the fetch path writes into metadata_info
WrittenKeys ==
    IF "metagraph" \in DOMAIN metadata THEN DOMAIN metadata["metagraph"] ELSE {}

\* a run that fetched the metagraph and went on to render it
RenderedAfterFetch ==
    /\ cmd = "metagraph_cmd"
    /\ last_run.ran
    /\ ~last_run.reuse_last
    /\ last_run.printed \notin {<<NoSubnet>>, <<NoSubnetState>>}

\* C28: every key the rendering reads, on the HTML path and on the terminal
\* path, is among the keys the fetch wrote, and no run that renders what it
\* has just fetched ends in a KeyError
C28_RenderReadsWrittenKeys ==
    /\ "metagraph" \in DOMAIN metadata => (HtmlKeys \cup TerminalKeys) \subseteq WrittenKeys
    /\ RenderedAfterFetch => last_run.result # RaiseKeyError

====
